---- MODULE Spec2Model ----
(***************************************************************************)
(* A model of the GoPro control backend (src/backend): the BLE framing     *)
(* codec and the COHN provisioning run of cohn_manager.py, and the camera  *)
(* registry, shutter batch and connection monitor of camera_manager.py and *)
(* main.py.                                                                *)
(*                                                                         *)
(* The specifications share the variables:                                 *)
(*   SpecCodec    fragments a payload and feeds its frames to the          *)
(*                notification handler of one characteristic;              *)
(*   SpecStray    adds stray continuation packets on the three             *)
(*                characteristics;                                         *)
(*   SpecFrames   adds stray first packets as well;                        *)
(*   SpecInterleaved  notifies one message per characteristic, their       *)
(*                frames interleaved;                                      *)
(*   SpecProto    decodes buffers of protobuf fields, field by field;      *)
(*   SpecVarint   encodes integers as varints and decodes buffers, the     *)
(*                decode loop pass by pass (FairDecode: the decoder alone, *)
(*                with fairness);                                          *)
(*   SpecProv     runs provision_camera requests on the asyncio event      *)
(*                loop, one serial in flight at a time;                    *)
(*   SpecOverlap  runs two requests for different serials side by side,    *)
(*                through step 8;                                          *)
(*   SpecCam      runs the camera registry, the shutter batches and the    *)
(*                connection monitor with its poll threads;                *)
(*   SpecProbe    adds probe_ble_alive calls on one camera;                *)
(*   SpecConnect  runs connect_ble and check_existing_connections await    *)
(*                by await, with the monitor;                              *)
(*   SpecWifi     runs step 7 of a provisioning run against the camera's   *)
(*                provisioning notifications;                              *)
(*   SpecShutter  calls _fire_shutter_raw on cameras in every connection   *)
(*                state;                                                   *)
(*   SpecBusy     runs the monitor with ble_busy assigned from outside;    *)
(*   SpecHistory  runs battery readings through get_battery_level and      *)
(*                get_health_status;                                       *)
(*   SpecRecording  runs disconnect await by await, with connect_ble, the  *)
(*                shutter and update_connection_status;                    *)
(*   SpecRemove   runs remove_camera requests side by side.                *)
(***************************************************************************)
EXTENDS Integers, Sequences, FiniteSets, TLC

VARIABLES
    \* ---- COHNManager (cohn_manager.py) ----
    notification_data,    \* self._notification_data: dict uuid -> Queue object (its id)
    queues,               \* the asyncio.Queue objects: dict id -> queued payloads
    reassembly_buffers,   \* self._reassembly_buffers: dict uuid -> buffer
    provisioning_locks,   \* self._provisioning_locks: dict serial -> locked?
    credentials,          \* self.credentials: dict serial -> credential record
    wifi,                 \* self.wifi_ssid and self.wifi_password
    \* ---- provision_camera requests (one asyncio task each) ----
    task,                 \* per request: the await it is suspended at (pc), its
                          \* argument and locals, and what its caller observed
    cam,                  \* per request: the camera's side of its BLE connection
    \* ---- codec driver ----
    sent,                 \* the payload handed to _fragment_payload: its length,
                          \* the seed of its bytes, and its characteristic
    wire,                 \* uuid -> frames still to be notified, in order
    fed,                  \* number of frames the handler has been called with
    varint,               \* a _encode_varint / _decode_varint call: its argument,
                          \* the locals of the decode loop, and what it returned
                          \* or raised
    proto,                \* a _decode_protobuf_fields call: its argument, the
                          \* locals of its loop, and how it ended
    \* ---- CameraManager (camera_manager.py) and connection_monitor (main.py) ----
    cameras,              \* self.cameras: dict serial -> CameraInstance fields
    ble_busy,             \* self.ble_busy
    batch,                \* the start_recording_all / stop_recording_all call:
                          \* its position, locals and what its caller got
    monitor,              \* connection_monitor: the await it is suspended at
                          \* and its locals
    poll_threads,         \* the threads of _ble_cmd_in_thread still running a
                          \* status read
    returned,             \* what the last connect_ble, _check_single_connection
                          \* or probe_ble_alive call handed to its caller
    removals              \* per remove_camera request: the await it is
                          \* suspended at, its serial and what its caller got

codecVars == <<sent, wire, fed, varint, proto>>
cohnVars ==
    <<notification_data, queues, reassembly_buffers, provisioning_locks, credentials,
      wifi>>
provVars == <<task, cam>>
camVars == <<cameras, ble_busy, batch, monitor, poll_threads, returned, removals>>
vars == <<cohnVars, provVars, codecVars, camVars>>

\* ------------------------------------------------------------------------
\* Bounds of the model
\* ------------------------------------------------------------------------
MaxSmallLen == 40
MaxTasks == 2
MaxAsync == 1
\* connection_monitor polls the battery every 120 and the health every 30
\* iterations; the model scales both periods down.
BatteryPollIterations == 2
HealthPollIterations == 1
\* Status reads that outlived the join timeout of _ble_cmd_in_thread and are
\* still running.
MaxLingering == 1

\* ------------------------------------------------------------------------
\* Bytes and Python helpers
\* ------------------------------------------------------------------------
Min(a, b) == IF a < b THEN a ELSE b

\* Python's s[a:b] on a sequence (0-based, clipped to the sequence).
Slice(s, a, b) == SubSeq(s, a + 1, Min(b, Len(s)))

RECURSIVE BitAnd(_, _)
BitAnd(a, b) ==
    IF a = 0 \/ b = 0 THEN 0
    ELSE (a % 2) * (b % 2) + 2 * BitAnd(a \div 2, b \div 2)

BitOr(a, b) == a + b - BitAnd(a, b)

\* int.to_bytes(2, "big"); Python raises OverflowError above 0xFFFF.
ToBytes2(n) == << n \div 256, n % 256 >>

\* ------------------------------------------------------------------------
\* BLE characteristics (cohn_manager.py:27-32)
\* ------------------------------------------------------------------------
CQ_COMMAND_RESP == "CQ_COMMAND_RESP"
CQ_QUERY_RESP == "CQ_QUERY_RESP"
CM_NET_MGMT_RESP == "CM_NET_MGMT_RESP"
NotifyUUIDs == {CQ_COMMAND_RESP, CQ_QUERY_RESP, CM_NET_MGMT_RESP}

ValueError == "ValueError"

\* Python dictionaries are functions whose domain is the set of keys present.
EmptyDict == << >>
DictSet(d, k, v) == [x \in (DOMAIN d) \cup {k} |-> IF x = k THEN v ELSE d[x]]
DictPop(d, k) == [x \in (DOMAIN d) \ {k} |-> d[x]]

\* ------------------------------------------------------------------------
\* COHNManager._fragment_payload
\* ------------------------------------------------------------------------
MAX_PACKET_SIZE == 20

\* The while loop of _fragment_payload, packet by packet.  The loop variable
\* byte_index is 0 before the first packet and grows by the chunk just taken:
\* MAX_PACKET_SIZE - len(header) bytes in the first packet and
\* MAX_PACKET_SIZE - 1 in each continuation packet, so the k-th iteration
\* starts at byte_index_at(header, k) and the loop runs while that is below
\* len(payload).
byte_index_at(header, k) ==
    IF k = 1 THEN 0
    ELSE (MAX_PACKET_SIZE - Len(header)) + (k - 2) * (MAX_PACKET_SIZE - 1)

\* A loop whose continuation packets start with 0x40.
fragment_packet_wrong_continuation(data, header, k) ==
    LET packet == IF k = 1 THEN header ELSE <<64>>
        space == MAX_PACKET_SIZE - Len(packet)
        byte_index == byte_index_at(header, k)
        chunk == Slice(data, byte_index, byte_index + space)
    IN  packet \o chunk

fragment_packet(data, header, k) ==
    LET packet == IF k = 1 THEN header ELSE <<128>>
        space == MAX_PACKET_SIZE - Len(packet)
        byte_index == byte_index_at(header, k)
        chunk == Slice(data, byte_index, byte_index + space)
    IN  packet \o chunk

fragment_loop(data, header) ==
    LET n == CHOOSE m \in 1 .. Len(data) :
                 /\ byte_index_at(header, m) < Len(data)
                 /\ byte_index_at(header, m + 1) >= Len(data)
    IN  [k \in 1 .. n |-> fragment_packet(data, header, k)]

\* A header that carries the length without the first-of-multi flag.
fragment_header_plain(length) == ToBytes2(length)

\* The 2-byte header of the first packet of a multi-packet message.
fragment_header(length) ==
    IF length < 2^13 - 1 THEN ToBytes2(BitOr(length, 8192))
    ELSE ToBytes2(BitOr(length, 24576))

\* A _fragment_payload that takes every payload filling a 20-byte packet
\* with its length byte as a single packet.
fragment_payload_single_19(data) ==
    LET length == Len(data)
    IN  IF length = 0 THEN << <<0>> >>
        ELSE IF length <= MAX_PACKET_SIZE - 1 THEN << <<length>> \o data >>
        ELSE IF length >= 2^16 - 1 THEN ValueError
        ELSE fragment_loop(data, fragment_header(length))

fragment_payload(data) ==
    LET length == Len(data)
    IN  IF length = 0 THEN << <<0>> >>
        ELSE IF length <= 18 THEN << <<length>> \o data >>
        ELSE IF length >= 2^16 - 1 THEN ValueError
        ELSE fragment_loop(data, fragment_header(length))

\* ------------------------------------------------------------------------
\* COHNManager._notification_handler: the handler of characteristic uuid,
\* called with one raw notification.  bufs is self._reassembly_buffers, nd is
\* self._notification_data and qs the Queue objects; the result is bufs and
\* qs after the call.
\* ------------------------------------------------------------------------
\* A delivery that puts every payload on the query queue.
put_nowait_query_queue(nd, qs, uuid, p) ==
    IF CQ_QUERY_RESP \in DOMAIN nd
    THEN [qs EXCEPT ![nd[CQ_QUERY_RESP]] = Append(@, p)] ELSE qs

\* queue = self._notification_data.get(uuid); if queue: queue.put_nowait(p)
put_nowait(nd, qs, uuid, p) ==
    IF uuid \in DOMAIN nd THEN [qs EXCEPT ![nd[uuid]] = Append(@, p)] ELSE qs

\* A first-of-multi packet: open the buffer, complete at once if satisfied.
handler_first(bufs, nd, qs, uuid, total_len, fragment) ==
    IF Len(fragment) >= total_len
    THEN [bufs |-> DictPop(bufs, uuid),
          qs   |-> put_nowait(nd, qs, uuid, Slice(fragment, 0, total_len))]
    ELSE [bufs |-> DictSet(bufs, uuid,
                           [total_len |-> total_len, data |-> fragment]),
          qs   |-> qs]

\* A handler that takes a continuation packet without a start as the start
\* of a message.
handler_continuation_opens_buffer(bufs, nd, qs, uuid, raw) ==
    IF uuid \notin DOMAIN bufs
    THEN [bufs |-> DictSet(bufs, uuid,
                           [total_len |-> Len(raw), data |-> Slice(raw, 1, Len(raw))]),
          qs   |-> qs]
    ELSE LET buf == bufs[uuid]
             data == buf.data \o Slice(raw, 1, Len(raw))
         IN  IF Len(data) >= buf.total_len
             THEN [bufs |-> DictPop(bufs, uuid),
                   qs   |-> put_nowait(nd, qs, uuid, Slice(data, 0, buf.total_len))]
             ELSE [bufs |-> DictSet(bufs, uuid,
                                    [total_len |-> buf.total_len, data |-> data]),
                   qs   |-> qs]

\* A handler that completes a message only once more bytes than expected
\* have arrived.
handler_continuation_late(bufs, nd, qs, uuid, raw) ==
    IF uuid \notin DOMAIN bufs THEN [bufs |-> bufs, qs |-> qs]
    ELSE LET buf == bufs[uuid]
             data == buf.data \o Slice(raw, 1, Len(raw))
         IN  IF Len(data) > buf.total_len
             THEN [bufs |-> DictPop(bufs, uuid),
                   qs   |-> put_nowait(nd, qs, uuid, Slice(data, 0, buf.total_len))]
             ELSE [bufs |-> DictSet(bufs, uuid,
                                    [total_len |-> buf.total_len, data |-> data]),
                   qs   |-> qs]

\* A continuation packet (bit 7 set).
handler_continuation(bufs, nd, qs, uuid, raw) ==
    IF uuid \notin DOMAIN bufs THEN [bufs |-> bufs, qs |-> qs]
    ELSE LET buf == bufs[uuid]
             data == buf.data \o Slice(raw, 1, Len(raw))
         IN  IF Len(data) >= buf.total_len
             THEN [bufs |-> DictPop(bufs, uuid),
                   qs   |-> put_nowait(nd, qs, uuid, Slice(data, 0, buf.total_len))]
             ELSE [bufs |-> DictSet(bufs, uuid,
                                    [total_len |-> buf.total_len, data |-> data]),
                   qs   |-> qs]

notification_handler(bufs, nd, qs, uuid, raw) ==
    IF Len(raw) = 0 THEN [bufs |-> bufs, qs |-> qs]
    ELSE LET header == raw[1]
         IN  IF BitAnd(header, 128) # 0
             THEN handler_continuation(bufs, nd, qs, uuid, raw)
             ELSE IF BitAnd(header, 96) = 96
             THEN IF Len(raw) < 3 THEN [bufs |-> bufs, qs |-> qs]
                  ELSE handler_first(bufs, nd, qs, uuid,
                                     raw[2] * 256 + raw[3], Slice(raw, 3, Len(raw)))
             ELSE IF BitAnd(header, 32) # 0
             THEN IF Len(raw) < 2 THEN [bufs |-> bufs, qs |-> qs]
                  ELSE handler_first(bufs, nd, qs, uuid,
                                     BitAnd(header, 31) * 256 + raw[2],
                                     Slice(raw, 2, Len(raw)))
             ELSE [bufs |-> bufs,
                   qs   |-> put_nowait(nd, qs, uuid,
                                       Slice(raw, 1, 1 + BitAnd(header, 31)))]

\* self._notification_handler(uuid) called by the BLE stack with raw.
HandlerCall(uuid, raw) ==
    LET r == notification_handler(reassembly_buffers, notification_data,
                                  queues, uuid, raw)
    IN  /\ reassembly_buffers' = r.bufs
        /\ queues' = r.qs
        /\ UNCHANGED notification_data


\* ------------------------------------------------------------------------
\* Provisioning: the requests, the cameras and the credential records
\* ------------------------------------------------------------------------
Serials == {"S1", "S2"}
Tasks == 1 .. MaxTasks
NoSerial == "-"
NoUUID == "-"
NoQueue == << 0, "-" >>
NoException == "-"
\* None as get_credentials returns it: a record no run writes, so that it
\* compares with the records.
NoRecord == [ip_address |-> "-", password |-> "-", provisioned_at |-> -1]

\* The Queue object a run creates for a characteristic (asyncio.Queue()).
NewQueue(t, uuid) == << t, uuid >>

\* Every camera marks the payloads it sends with its own byte.
Tag(s) == IF s = "S1" THEN 1 ELSE 2
Origin(p) == IF p = << >> THEN NoSerial ELSE IF p[1] = 1 THEN "S1" ELSE "S2"

\* A camera message: one that fits a single packet, and one of 19 bytes,
\* which the framing splits into two packets.
MsgKinds == {"short", "long"}
Msg(s, kind) ==
    IF kind = "short" THEN << Tag(s) >> ELSE [i \in 1 .. 19 |-> Tag(s)]

\* Addresses a status response can carry (step 8, step 12) and the ARP table
\* can yield; HasDot is Python's  '.' in ip_address.
IPs == {"", "none", "10.0.0.7"}
HasDot(ip) == ip = "10.0.0.7"
Passwords == {"", "secret"}

\* The record serial S1 has in the store before any run of the model.
OldRecord ==
    [ip_address |-> "10.0.0.1", password |-> "old", provisioned_at |-> 0]

\* self.credentials.get(serial)
get_credentials(cred, s) == IF s \in DOMAIN cred THEN cred[s] ELSE NoRecord

\* COHNManager.is_provisioned
is_provisioned(cred, s) == s \in DOMAIN cred

\* Positions of a run: rN is the await of report(N, ...), the others are the
\* awaits of the step bodies; hdisc is the disconnect in the except block.
ReportPos ==
    << "r1", "r2", "r3", "r4", "r5", "r6", "r7", "r8", "r9", "r10",
       "r11", "r12", "r13", "r14", "r15" >>
InnerPos ==
    {ReportPos[n] : n \in 1 .. 15} \cup
    {"scan", "connect", "subscribe", "clock", "x5", "p5", "x6", "x7", "p7",
     "sl8", "x8", "g8", "x9", "sl9", "x10", "sl10", "x11", "x12", "x13",
     "sl13", "disc", "hdisc"}

\* self.wifi_ssid and self.wifi_password after the constructor, when there is
\* no credentials file (lines 47-48), and as loaded from the file (62-63).
NoWifi == [wifi_ssid |-> "None", wifi_password |-> "None"]
SavedWifi == [wifi_ssid |-> "HomeNet", wifi_password |-> "home-pw"]

\* The wifi_ssid and wifi_password arguments of request t: the first request
\* names another network than the saved one.
WifiArgs(t) ==
    IF t = 1 THEN [wifi_ssid |-> "Studio", wifi_password |-> "studio-pw"]
    ELSE SavedWifi

IdleTask ==
    [pc |-> "idle", serial |-> NoSerial, client |-> "None",
     subscribed |-> FALSE, wait_q |-> NoQueue, resp |-> << >>,
     progress |-> << >>, result |-> "none", exc |-> NoException,
     deadline_fired |-> FALSE, disconnect_calls |-> 0,
     cred_before |-> NoRecord, discovered_ip |-> "",
     ip_address |-> "", password |-> "", drained |-> 0, warned |-> {},
     status_ip |-> "", arp_ip |-> "", wifi_before |-> NoWifi]

IdleCam == [tx |-> << >>, awaiting_resp |-> NoUUID, async_left |-> 0]

\* A lock whose locked() is always false: the check of line 426 never rejects.
lock_never_locked(s) == FALSE

\* lock.locked() of the serial's lock (provision_camera, line 426).
lock_locked(s) == s \in DOMAIN provisioning_locks /\ provisioning_locks[s]

\* ------------------------------------------------------------------------
\* The code between two awaits of a run, as functions of what it reads and
\* writes: w.r is the run (its position and locals), w.nd, w.qs, w.bufs and
\* w.cred are the manager's dictionaries, w.cm is the run's camera.
\* ------------------------------------------------------------------------
World(t) ==
    [r |-> task[t], nd |-> notification_data, qs |-> queues,
     bufs |-> reassembly_buffers, cred |-> credentials, cm |-> cam[t],
     wifi |-> wifi]

\* Queue objects still referenced: by the dictionary or by a run's local.
Live(qs, nd, tk) ==
    [q \in {x \in DOMAIN qs :
               \/ \E u \in DOMAIN nd : nd[u] = x
               \/ \E t \in Tasks : tk[t].wait_q = x} |-> qs[q]]

\* A variant of Commit for a lock taken with acquire() and given back with
\* release() after the try statement: the exception that provision_camera
\* raises when the deadline expires skips the release.
Commit_release_skipped_on_timeout(t, w) ==
    /\ task' = [task EXCEPT ![t] = w.r]
    /\ notification_data' = w.nd
    /\ reassembly_buffers' = w.bufs
    /\ credentials' = w.cred
    /\ wifi' = w.wifi
    /\ cam' = [cam EXCEPT ![t] = w.cm]
    /\ provisioning_locks' =
          IF w.r.pc = "done" /\ task[t].pc \in InnerPos /\ w.r.result # "timed_out"
          THEN [provisioning_locks EXCEPT ![w.r.serial] = FALSE]
          ELSE provisioning_locks
    /\ queues' = Live(w.qs, w.nd, [task EXCEPT ![t] = w.r])

\* The run of task t has executed up to its next await; leaving
\* `async with lock` (provision_camera is over) releases the lock.
Commit(t, w) ==
    /\ task' = [task EXCEPT ![t] = w.r]
    /\ notification_data' = w.nd
    /\ reassembly_buffers' = w.bufs
    /\ credentials' = w.cred
    /\ wifi' = w.wifi
    /\ cam' = [cam EXCEPT ![t] = w.cm]
    /\ provisioning_locks' =
          IF w.r.pc = "done" /\ task[t].pc \in InnerPos
          THEN [provisioning_locks EXCEPT ![w.r.serial] = FALSE]
          ELSE provisioning_locks
    /\ queues' = Live(w.qs, w.nd, [task EXCEPT ![t] = w.r])

\* A variant of report whose call in step 12 emits no event.
report_silent_in_step_12(w, n) ==
    [w EXCEPT !.r = [@ EXCEPT !.progress = IF n = 12 THEN @ ELSE Append(@, n),
                              !.pc = ReportPos[n]]]

\* await report(n, total_steps, msg): the event is emitted and the progress
\* callback awaited.
report(w, n) ==
    [w EXCEPT !.r = [@ EXCEPT !.progress = Append(@, n), !.pc = ReportPos[n]]]

\* asyncio.TimeoutError, from the run or from wait_for, is turned into the
\* "timed out after 5 minutes" exception; any other exception passes.
ErrorOutcome(kind) == IF kind = "TimeoutError" THEN "timed_out" ELSE "error"

\* provision_camera is over: its caller has the outcome, the locals are gone.
finished(w, outcome) ==
    [w EXCEPT !.r = [@ EXCEPT !.pc = "done", !.result = outcome,
                              !.wait_q = NoQueue, !.resp = << >>,
                              !.drained = 0, !.warned = {},
                              !.status_ip = "", !.arp_ip = "",
                              !.wifi_before = NoWifi,
                              !.exc = NoException, !.discovered_ip = "",
                              !.ip_address = "", !.password = ""]]

\* A variant of raised that stores what the run has gathered so far as the
\* serial's credential record before it re-raises.
raised_storing_partial(w, kind) ==
    LET v == [w EXCEPT !.cred = DictSet(w.cred, w.r.serial,
                                        [ip_address |-> w.r.discovered_ip,
                                         password |-> w.r.password,
                                         provisioned_at |-> 0])]
    IN  IF v.r.client = "connected"
        THEN [v EXCEPT !.r = [@ EXCEPT !.pc = "hdisc", !.exc = kind,
                                       !.wait_q = NoQueue, !.drained = 0,
                                       !.disconnect_calls = @ + 1]]
        ELSE finished(v, ErrorOutcome(kind))

\* An exception reaches `except Exception as e` of _provision_camera_inner:
\* disconnect if the client is connected, then re-raise.
raised(w, kind) ==
    IF w.r.client = "connected"
    THEN [w EXCEPT !.r = [@ EXCEPT !.pc = "hdisc", !.exc = kind,
                                   !.wait_q = NoQueue, !.drained = 0,
                                   !.disconnect_calls = @ + 1]]
    ELSE finished(w, ErrorOutcome(kind))

\* The client is gone: its notifications stop.
closed(w) ==
    [w EXCEPT !.r = [@ EXCEPT !.client = "closed", !.subscribed = FALSE],
              !.cm = IdleCam]

\* The payloads a queue holds when _write_and_wait looks it up.
stale(w, q) == IF q \in DOMAIN w.qs THEN w.qs[q] ELSE << >>

\* A variant of _write_and_wait without the drain loop of lines 247-248.
write_and_wait_keeps_queue(w, t, uuid, pos, pushes) ==
    LET q == IF uuid \in DOMAIN w.nd THEN w.nd[uuid] ELSE NewQueue(t, uuid)
    IN  [w EXCEPT !.nd = DictSet(w.nd, uuid, q),
                  !.qs = DictSet(w.qs, q, stale(w, q)),
                  !.cm = [@ EXCEPT !.awaiting_resp = uuid, !.async_left = pushes],
                  !.r = [@ EXCEPT !.wait_q = q, !.pc = pos, !.resp = << >>,
                                  !.drained = Len(stale(w, q))]]

\* _write_and_wait up to its queue.get(): look the queue up (create it if the
\* dictionary has none), drain it, write the command to the camera.  pushes
\* is the number of notifications the command makes the camera send later.
\* drained records how many payloads the drain loop dropped.
write_and_wait(w, t, uuid, pos, pushes) ==
    LET q == IF uuid \in DOMAIN w.nd THEN w.nd[uuid] ELSE NewQueue(t, uuid)
    IN  [w EXCEPT !.nd = DictSet(w.nd, uuid, q),
                  !.qs = DictSet(w.qs, q, << >>),
                  !.cm = [@ EXCEPT !.awaiting_resp = uuid, !.async_left = pushes],
                  !.r = [@ EXCEPT !.wait_q = q, !.pc = pos, !.resp = << >>,
                                  !.drained = Len(stale(w, q))]]

\* _wait_for_notification up to its queue.get(): look the queue up again.
wait_for_notification(w, t, uuid, pos) ==
    LET q == IF uuid \in DOMAIN w.nd THEN w.nd[uuid] ELSE NewQueue(t, uuid)
    IN  [w EXCEPT !.nd = DictSet(w.nd, uuid, q),
                  !.qs = IF q \in DOMAIN w.qs THEN w.qs ELSE DictSet(w.qs, q, << >>),
                  !.r = [@ EXCEPT !.wait_q = q, !.pc = pos]]

\* queue.get() on the awaited queue returns its first payload.
HasResponse(t) == queues[task[t].wait_q] # << >>
got(w) ==
    [w EXCEPT !.qs = [@ EXCEPT ![w.r.wait_q] = Tail(@)],
              !.r = [@ EXCEPT !.resp = Head(w.qs[w.r.wait_q]),
                              !.wait_q = NoQueue, !.drained = 0]]

\* The exchange fails: the write raises, or the camera never answers and
\* asyncio.wait_for times out.  A camera that stayed silent stays silent.
NoAnswer(t) == queues[task[t].wait_q] = << >> /\ cam[t].tx = << >>
unanswered(w) ==
    [w EXCEPT !.cm = [@ EXCEPT !.awaiting_resp = NoUUID, !.async_left = 0],
              !.r = [@ EXCEPT !.wait_q = NoQueue, !.drained = 0]]

\* ------------------------------------------------------------------------
\* Codec specification: one payload, fragmented and notified frame by frame
\* ------------------------------------------------------------------------
\* Payload lengths: every small length on every characteristic, and the
\* lengths around the switch of the length header from 13 to 16 bits.
HeaderSwitch == {8190, 8191, 8192}
SmallLens == 0 .. MaxSmallLen
Seeds == {0, 1, 127, 250}
BigSeeds == {0, 250}

\* The payload of a given length whose i-th byte (0-based) is (seed + i) % 256.
MakePayload(len, seed) == [i \in 1 .. len |-> (seed + i - 1) % 256]

\* The payload handed to _fragment_payload.
payload == MakePayload(sent.len, sent.seed)

NoFrames == [u \in NotifyUUIDs |-> << >>]

CodecInputs ==
    (SmallLens \X Seeds \X NotifyUUIDs)
        \cup (HeaderSwitch \X BigSeeds \X {CQ_QUERY_RESP})

\* No provisioning request has been made.
IdleProv ==
    /\ task = [t \in Tasks |-> IdleTask]
    /\ cam = [t \in Tasks |-> IdleCam]
    /\ provisioning_locks = EmptyDict
    /\ credentials = EmptyDict
    /\ wifi = NoWifi

\* ------------------------------------------------------------------------
\* CameraManager and connection_monitor: the state after construction
\* ------------------------------------------------------------------------
\* CameraInstance.__init__.  gopro is "None" or "GoPro" (the handle object);
\* handle says whether the object's _ble._handle is set, which is all that
\* is_ble_connected looks at; bleak is what the underlying client's
\* is_connected gives: "connected", "disconnected", or "raises" when it
\* cannot be read.  call is the await at which a connect_ble or
\* _check_single_connection call on this camera is suspended ("-" = no
\* call), attempt the index of its loop.  A sample of battery_history is
\* the number of the reading that produced it, which stands for its
\* (datetime.now(), level) pair; readings counts the readings so far.
\* None as a battery level.
NoLevel == -1
CameraInstance ==
    [gopro |-> "None", handle |-> FALSE, bleak |-> "disconnected",
     connected |-> FALSE, recording |-> FALSE, battery_level |-> NoLevel,
     call |-> "-", attempt |-> 0, battery_history |-> << >>, readings |-> 0]

\* DELETE /api/cameras/{serial} requests the model makes.
MaxRemovals == 2
Removers == 1 .. MaxRemovals
\* A request that has not been made.  ret is what remove_camera gave its
\* caller: "True", "False", or "KeyError" when it raised; overlapped says
\* that another request for the same serial was in flight with this one.
IdleRemoval == [pc |-> "idle", serial |-> "-", ret |-> "-", overlapped |-> FALSE]

\* No call has returned yet.
NoReturn == [op |-> "-", serial |-> "-", ret |-> FALSE]

\* No start_recording_all / stop_recording_all call has been made.  began is
\* the set of registered cameras whose connected flag was true when the call
\* began; connected and serials, results are the call's locals; fired logs
\* each shutter attempt the call made, in order.
IdleBatch ==
    [pc |-> "idle", is_start |-> FALSE, began |-> {}, connected |-> {},
     serials |-> << >>, results |-> EmptyDict, fired |-> << >>]

\* connection_monitor before its first iteration.
IdleMonitor ==
    [pc |-> "refresh", previous_states |-> EmptyDict,
     battery_poll_counter |-> 0, health_poll_counter |-> 0,
     serials |-> << >>, reply |-> "-", skipped |-> FALSE]

\* CameraManager.__init__ and the module-level state of main.py.
IdleCameras ==
    /\ cameras = EmptyDict
    /\ ble_busy = FALSE
    /\ batch = IdleBatch
    /\ monitor = IdleMonitor
    /\ poll_threads = {}
    /\ returned = NoReturn
    /\ removals = [k \in Removers |-> IdleRemoval]

\* No varint call has been made.  value is the integer handed to
\* _encode_varint and data the bytes handed to _decode_varint; result, shift
\* and offset are the locals of the decode loop.  Python integers have no
\* width: an integer is held as its base-128 digits, lowest first, without
\* leading zeros (0 is the empty sequence).  input says which of the two the
\* caller supplied.
IdleVarint ==
    [pc |-> "idle", input |-> "-", value |-> << >>, data |-> << >>,
     result |-> << >>, shift |-> 0, offset |-> 0, raises |-> "-"]

\* No _decode_protobuf_fields call has been made.  items are the pieces the
\* buffer data was put together from; fields maps a field number to
\* <<"int", digits>> or <<"bytes", bytes>>.
IdleProto ==
    [pc |-> "idle", items |-> << >>, data |-> << >>, offset |-> 0,
     fields |-> << >>, raises |-> "-"]

\* The codec driver is not in use.
IdleCodec ==
    /\ varint = IdleVarint
    /\ proto = IdleProto
    /\ sent = [len |-> 0, seed |-> 0, uuid |-> NoUUID]
    /\ wire = NoFrames
    /\ fed = 0

InitCodec ==
    /\ \E in \in CodecInputs :
          /\ sent = [len |-> in[1], seed |-> in[2], uuid |-> in[3]]
          /\ wire = [NoFrames EXCEPT
                        ![in[3]] = fragment_payload(MakePayload(in[1], in[2]))]
          /\ notification_data = DictSet(EmptyDict, in[3], NewQueue(0, in[3]))
          /\ queues = DictSet(EmptyDict, NewQueue(0, in[3]), << >>)
    /\ reassembly_buffers = EmptyDict
    /\ fed = 0
    /\ varint = IdleVarint
    /\ proto = IdleProto
    /\ IdleProv
    /\ IdleCameras

\* The BLE stack calls the handler of characteristic u with the next frame
\* of the wire.
Notify(u) ==
    /\ wire[u] # << >>
    /\ HandlerCall(u, Head(wire[u]))
    /\ wire' = [wire EXCEPT ![u] = Tail(@)]
    /\ fed' = fed + 1
    /\ UNCHANGED <<sent, varint, proto, provVars, provisioning_locks, credentials, wifi,
                   camVars>>

NextCodec == \E u \in NotifyUUIDs : Notify(u)

SpecCodec == InitCodec /\ [][NextCodec]_vars

\* ------------------------------------------------------------------------
\* C1
\* ------------------------------------------------------------------------
AllFed == \A u \in NotifyUUIDs : wire[u] = << >>

\* C1: once every frame of fragment_payload(payload) has been fed, in order,
\* to the handler of one characteristic, that characteristic's queue holds
\* exactly the original payload -- for every payload length, the lengths of
\* 8191 bytes or more (16-bit length header) included.
C1_RoundTrip ==
    AllFed => queues[notification_data[sent.uuid]] = << payload >>

\* ------------------------------------------------------------------------
\* COHNManager.provision_camera and _provision_camera_inner, await by await
\* ------------------------------------------------------------------------
\* The first request is for S1, the one with a record in the store; the
\* others are for either serial.
RequestSerials(t) == IF t = 1 THEN {"S1"} ELSE Serials

\* POST /api/cohn/provision/{serial}: provision_camera from its call to its
\* first suspension (requests are numbered in their order of arrival).  The
\* lock is created if missing; a locked lock raises "already in progress";
\* otherwise `async with lock` takes it, wait_for starts the run, and the run
\* stores its wifi_ssid and wifi_password arguments in the manager (lines
\* 463-464) and suspends in report(1).
provision_camera(t, s) ==
    /\ task[t].pc = "idle"
    /\ \A u \in Tasks : u < t => task[u].pc # "idle"
    /\ LET locks == IF s \in DOMAIN provisioning_locks THEN provisioning_locks
                    ELSE DictSet(provisioning_locks, s, FALSE)
           w == [World(t) EXCEPT
                    !.r = [@ EXCEPT !.serial = s,
                                    !.cred_before = get_credentials(credentials, s)]]
       IN  IF lock_locked(s)
           THEN /\ task' = [task EXCEPT ![t] = finished(w, "already_in_progress").r]
                /\ provisioning_locks' = locks
                /\ wifi' = wifi
           ELSE IF locks[s]
           THEN /\ task' = [task EXCEPT ![t] = [w.r EXCEPT !.pc = "lock_wait"]]
                /\ provisioning_locks' = locks
                /\ wifi' = wifi
           ELSE /\ task' = [task EXCEPT ![t] =
                                [report(w, 1).r EXCEPT !.wifi_before = wifi]]
                /\ provisioning_locks' = [locks EXCEPT ![s] = TRUE]
                /\ wifi' = WifiArgs(t)
    /\ UNCHANGED <<notification_data, queues, reassembly_buffers, credentials, cam>>

\* Step 1: scan for the camera.
Step1(t) ==
    /\ task[t].pc = "r1"
    /\ Commit(t, [World(t) EXCEPT !.r.pc = "scan"])

Scan(t, found) ==
    /\ task[t].pc = "scan"
    /\ Commit(t, IF found THEN report(World(t), 2)
                 ELSE raised(World(t), "Exception"))

\* Step 2: client = BleakClient(device); await client.connect(timeout=30).
Step2(t) ==
    /\ task[t].pc = "r2"
    /\ Commit(t, [World(t) EXCEPT !.r = [@ EXCEPT !.client = "created",
                                                  !.pc = "connect"]])

Connect(t, outcome) ==
    /\ task[t].pc = "connect"
    /\ Commit(t, IF outcome = "ok"
                 THEN report([World(t) EXCEPT !.r.client = "connected"], 3)
                 ELSE raised(World(t), outcome))

\* A variant of step 3 without the pop of line 505: the reassembly buffers
\* of an earlier run stay.
step3_keeps_buffers(w, t) ==
    [w EXCEPT
       !.nd = [u \in (DOMAIN w.nd) \cup NotifyUUIDs |->
                 IF u \in NotifyUUIDs THEN NewQueue(t, u) ELSE w.nd[u]],
       !.qs = [q \in (DOMAIN w.qs) \cup {NewQueue(t, u) : u \in NotifyUUIDs} |->
                 IF q \in {NewQueue(t, u) : u \in NotifyUUIDs} THEN << >>
                 ELSE w.qs[q]],
       !.r = [@ EXCEPT !.pc = "subscribe"]]

\* Step 3: fresh queues for the three characteristics, their reassembly
\* buffers dropped, then start_notify for each characteristic.
step3(w, t) ==
    [w EXCEPT
       !.nd = [u \in (DOMAIN w.nd) \cup NotifyUUIDs |->
                 IF u \in NotifyUUIDs THEN NewQueue(t, u) ELSE w.nd[u]],
       !.qs = [q \in (DOMAIN w.qs) \cup {NewQueue(t, u) : u \in NotifyUUIDs} |->
                 IF q \in {NewQueue(t, u) : u \in NotifyUUIDs} THEN << >>
                 ELSE w.qs[q]],
       !.bufs = [u \in (DOMAIN w.bufs) \ NotifyUUIDs |-> w.bufs[u]],
       !.r = [@ EXCEPT !.pc = "subscribe"]]

Step3(t) ==
    /\ task[t].pc = "r3"
    /\ Commit(t, step3(World(t), t))

Subscribe(t, ok) ==
    /\ task[t].pc = "subscribe"
    /\ Commit(t, IF ok THEN report([World(t) EXCEPT !.r.subscribed = TRUE], 4)
                 ELSE raised(World(t), "Exception"))

\* Step 4: the clock is written without waiting for an answer; a failure
\* of the write is logged.
Step4(t) ==
    /\ task[t].pc = "r4"
    /\ Commit(t, [World(t) EXCEPT !.r.pc = "clock"])

Clock(t) ==
    /\ task[t].pc = "clock"
    /\ Commit(t, report(World(t), 5))

\* write_gatt_char raises: the except branch of step 4 logs a warning
\* (warned records the steps whose failure the run logged and passed over).
ClockFailed(t) ==
    /\ task[t].pc = "clock"
    /\ Commit(t, report([World(t) EXCEPT !.r.warned = @ \cup {4}], 5))

\* Step 5: start the access point scan and wait for its notifications.
Step5(t) ==
    /\ task[t].pc = "r5"
    /\ Commit(t, write_and_wait(World(t), t, CM_NET_MGMT_RESP, "x5", MaxAsync))

Step5Response(t) ==
    /\ task[t].pc = "x5"
    /\ HasResponse(t)
    /\ Commit(t, wait_for_notification(got(World(t)), t, CM_NET_MGMT_RESP, "p5"))

Step5Failed(t) ==
    /\ task[t].pc = "x5"
    /\ NoAnswer(t)
    /\ Commit(t, report(unanswered(World(t)), 6))

\* One turn of `for _ in range(10)`: a notification that ends the scan, one
\* that does not, or a timeout; after the last turn the step is over.
Step5Notification(t) ==
    /\ task[t].pc = "p5"
    /\ HasResponse(t)
    /\ \E over \in BOOLEAN :
          Commit(t, IF over THEN report(got(World(t)), 6)
                    ELSE wait_for_notification(got(World(t)), t,
                                               CM_NET_MGMT_RESP, "p5"))

Step5Timeout(t) ==
    /\ task[t].pc = "p5"
    /\ NoAnswer(t)
    /\ \E over \in BOOLEAN :
          Commit(t, IF over THEN report(unanswered(World(t)), 6)
                    ELSE wait_for_notification(World(t), t,
                                               CM_NET_MGMT_RESP, "p5"))

\* Step 6: fetch the scan results (failure is logged).
Step6(t) ==
    /\ task[t].pc = "r6"
    /\ Commit(t, write_and_wait(World(t), t, CM_NET_MGMT_RESP, "x6", 0))

Step6Response(t) ==
    /\ task[t].pc = "x6"
    /\ HasResponse(t)
    /\ Commit(t, report(got(World(t)), 7))

Step6Failed(t) ==
    /\ task[t].pc = "x6"
    /\ NoAnswer(t)
    /\ Commit(t, report(unanswered(World(t)), 7))

\* Step 7: connect to the access point and wait for the provisioning
\* notifications (for _ in range(20)).
Step7(t) ==
    /\ task[t].pc = "r7"
    /\ Commit(t, write_and_wait(World(t), t, CM_NET_MGMT_RESP, "x7", MaxAsync))

Step7Response(t) ==
    /\ task[t].pc = "x7"
    /\ HasResponse(t)
    /\ Commit(t, wait_for_notification(got(World(t)), t, CM_NET_MGMT_RESP, "p7"))

Step7Failed(t) ==
    /\ task[t].pc = "x7"
    /\ NoAnswer(t)
    /\ Commit(t, report(unanswered(World(t)), 8))

Step7Notification(t) ==
    /\ task[t].pc = "p7"
    /\ HasResponse(t)
    /\ \E over \in BOOLEAN :
          Commit(t, IF over THEN report(got(World(t)), 8)
                    ELSE wait_for_notification(got(World(t)), t,
                                               CM_NET_MGMT_RESP, "p7"))

Step7Timeout(t) ==
    /\ task[t].pc = "p7"
    /\ NoAnswer(t)
    /\ \E over \in BOOLEAN :
          Commit(t, IF over THEN report(unanswered(World(t)), 8)
                    ELSE wait_for_notification(World(t), t,
                                               CM_NET_MGMT_RESP, "p7"))

\* Step 8: poll the COHN status (for attempt in range(30)), each turn a sleep
\* and an exchange on the query characteristic.
Step8(t) ==
    /\ task[t].pc = "r8"
    /\ Commit(t, [World(t) EXCEPT !.r = [@ EXCEPT !.discovered_ip = "",
                                                  !.pc = "sl8"]])

Step8Poll(t) ==
    /\ task[t].pc = "sl8"
    /\ Commit(t, write_and_wait(World(t), t, CQ_QUERY_RESP, "x8", 0))

\* After the last turn without `connected`: drain the query queue of the
\* dictionary, taking the address ip from the drained payloads; without an
\* address, sleep 15 s.
step8_exhausted(w, ip) ==
    LET drains == CQ_QUERY_RESP \in DOMAIN w.nd /\ w.qs[w.nd[CQ_QUERY_RESP]] # << >>
        w1 == IF drains
              THEN [w EXCEPT !.qs = [@ EXCEPT ![w.nd[CQ_QUERY_RESP]] = << >>]]
              ELSE w
    IN  IF drains /\ HasDot(ip)
        THEN report([w1 EXCEPT !.r.discovered_ip = ip], 9)
        ELSE [w1 EXCEPT !.r.pc = "g8"]

\* The status response: an address with a dot or state 27 ends the loop.
Step8Response(t) ==
    /\ task[t].pc = "x8"
    /\ HasResponse(t)
    /\ \E ip \in IPs, state27 \in BOOLEAN, last \in BOOLEAN, drained_ip \in IPs :
          Commit(t, IF HasDot(ip)
                    THEN report([got(World(t)) EXCEPT !.r.discovered_ip = ip], 9)
                    ELSE IF state27 THEN report(got(World(t)), 9)
                    ELSE IF last THEN step8_exhausted(got(World(t)), drained_ip)
                    ELSE [got(World(t)) EXCEPT !.r.pc = "sl8"])

Step8Failed(t) ==
    /\ task[t].pc = "x8"
    /\ NoAnswer(t)
    /\ \E last \in BOOLEAN, drained_ip \in IPs :
          Commit(t, IF last THEN step8_exhausted(unanswered(World(t)), drained_ip)
                    ELSE [unanswered(World(t)) EXCEPT !.r.pc = "sl8"])

Step8Grace(t) ==
    /\ task[t].pc = "g8"
    /\ Commit(t, report(World(t), 9))

\* Step 9: clear the old certificate (failure is logged).
Step9(t) ==
    /\ task[t].pc = "r9"
    /\ Commit(t, write_and_wait(World(t), t, CQ_COMMAND_RESP, "x9", 0))

Step9Response(t) ==
    /\ task[t].pc = "x9"
    /\ HasResponse(t)
    /\ Commit(t, [got(World(t)) EXCEPT !.r.pc = "sl9"])

\* A variant of step 9 without its try statement: the failure of the
\* exchange is raised, as in step 10.
Step9Failed_raises(t) ==
    /\ task[t].pc = "x9"
    /\ NoAnswer(t)
    /\ \E kind \in {"TimeoutError", "Exception"} :
          Commit(t, raised(unanswered(World(t)), kind))

Step9Failed(t) ==
    /\ task[t].pc = "x9"
    /\ NoAnswer(t)
    /\ Commit(t, report([unanswered(World(t)) EXCEPT !.r.warned = @ \cup {9}], 10))

Step9Sleep(t) ==
    /\ task[t].pc = "sl9"
    /\ Commit(t, report(World(t), 10))

\* Step 10: create the certificate (outside any try: failure aborts the run).
Step10(t) ==
    /\ task[t].pc = "r10"
    /\ Commit(t, write_and_wait(World(t), t, CQ_COMMAND_RESP, "x10", 0))

Step10Response(t) ==
    /\ task[t].pc = "x10"
    /\ HasResponse(t)
    /\ Commit(t, [got(World(t)) EXCEPT !.r.pc = "sl10"])

\* A variant of step 10 with its exchange in a try statement like the one
\* of step 9: the failure is logged and the run goes on with step 11.
Step10Failed_logged(t) ==
    /\ task[t].pc = "x10"
    /\ NoAnswer(t)
    /\ Commit(t, report(unanswered(World(t)), 11))

Step10Failed(t) ==
    /\ task[t].pc = "x10"
    /\ NoAnswer(t)
    /\ \E kind \in {"TimeoutError", "Exception"} :
          Commit(t, raised(unanswered(World(t)), kind))

Step10Sleep(t) ==
    /\ task[t].pc = "sl10"
    /\ Commit(t, report(World(t), 11))

\* Step 11: fetch the certificate.
Step11(t) ==
    /\ task[t].pc = "r11"
    /\ Commit(t, write_and_wait(World(t), t, CQ_QUERY_RESP, "x11", 0))

Step11Response(t) ==
    /\ task[t].pc = "x11"
    /\ HasResponse(t)
    /\ Commit(t, report(got(World(t)), 12))

Step11Failed(t) ==
    /\ task[t].pc = "x11"
    /\ NoAnswer(t)
    /\ \E kind \in {"TimeoutError", "Exception"} :
          Commit(t, raised(unanswered(World(t)), kind))

\* Step 12: fetch the COHN status; the address falls back to the one of
\* step 8, then to the ARP table; an address without a dot aborts the run.
Step12(t) ==
    /\ task[t].pc = "r12"
    /\ Commit(t, write_and_wait(World(t), t, CQ_QUERY_RESP, "x12", 0))

\* A variant of step 12 without the fallback of lines 800-802 to the
\* address of step 8.
step12_address_without_step8(status_ip, discovered, arp) ==
    IF (status_ip = "" \/ ~HasDot(status_ip)) /\ HasDot(arp) THEN arp ELSE status_ip

step12_address(status_ip, discovered, arp) ==
    LET ip1 == IF status_ip = "" /\ discovered # "" THEN discovered ELSE status_ip
    IN  IF (ip1 = "" \/ ~HasDot(ip1)) /\ HasDot(arp) THEN arp ELSE ip1

\* status_ip and arp_ip record what the status response and the ARP table
\* held for the run.
Step12Response(t) ==
    /\ task[t].pc = "x12"
    /\ HasResponse(t)
    /\ \E status_ip \in IPs, arp \in IPs, pw \in Passwords :
          LET ip == step12_address(status_ip, task[t].discovered_ip, arp)
              seen == [got(World(t)) EXCEPT !.r = [@ EXCEPT !.status_ip = status_ip,
                                                           !.arp_ip = arp]]
          IN  Commit(t, IF ip = "" \/ ~HasDot(ip)
                        THEN raised(seen, "Exception")
                        ELSE report([seen EXCEPT
                                        !.r = [@ EXCEPT
                                                 !.ip_address = ip,
                                                 !.password = IF pw = "" THEN "gopro_cohn"
                                                              ELSE pw]],
                                    13))

Step12Failed(t) ==
    /\ task[t].pc = "x12"
    /\ NoAnswer(t)
    /\ \E kind \in {"TimeoutError", "Exception"} :
          Commit(t, raised(unanswered(World(t)), kind))

\* Step 13: enable COHN (failure is logged).
Step13(t) ==
    /\ task[t].pc = "r13"
    /\ Commit(t, write_and_wait(World(t), t, CQ_COMMAND_RESP, "x13", 0))

Step13Response(t) ==
    /\ task[t].pc = "x13"
    /\ HasResponse(t)
    /\ Commit(t, [got(World(t)) EXCEPT !.r.pc = "sl13"])

Step13Failed(t) ==
    /\ task[t].pc = "x13"
    /\ NoAnswer(t)
    /\ Commit(t, report(unanswered(World(t)), 14))

Step13Sleep(t) ==
    /\ task[t].pc = "sl13"
    /\ Commit(t, report(World(t), 14))

\* Step 14: self.credentials[serial] = {...}; self._save().
\* A variant of step14 that stores the address found in step 8 instead of
\* the validated one.
step14_unvalidated(w, t) ==
    [w EXCEPT !.cred = DictSet(w.cred, w.r.serial,
                               [ip_address |-> w.r.discovered_ip,
                                password |-> w.r.password,
                                provisioned_at |-> t])]

step14(w, t) ==
    [w EXCEPT !.cred = DictSet(w.cred, w.r.serial,
                               [ip_address |-> w.r.ip_address,
                                password |-> w.r.password,
                                provisioned_at |-> t])]

Step14(t) ==
    /\ task[t].pc = "r14"
    /\ Commit(t, report(step14(World(t), t), 15))

\* Step 15: await client.disconnect(), then return the success record.
Step15(t) ==
    /\ task[t].pc = "r15"
    /\ Commit(t, [World(t) EXCEPT !.r = [@ EXCEPT !.disconnect_calls = @ + 1,
                                                  !.pc = "disc"]])

Disconnected(t) ==
    /\ task[t].pc = "disc"
    /\ Commit(t, finished(closed(World(t)), "success"))

\* client.disconnect() of step 15 raises; the client may still be connected.
DisconnectFails(t) ==
    /\ task[t].pc = "disc"
    /\ \E still \in BOOLEAN :
          Commit(t, IF still THEN raised(World(t), "Exception")
                    ELSE raised(closed(World(t)), "Exception"))

\* The disconnect of the except block returns or raises (swallowed), and the
\* exception is re-raised to provision_camera.
HandlerDisconnected(t) ==
    /\ task[t].pc = "hdisc"
    /\ \E ok \in BOOLEAN :
          Commit(t, finished(IF ok THEN closed(World(t)) ELSE World(t),
                             ErrorOutcome(task[t].exc)))

\* The 300 s timer of asyncio.wait_for expires while the run is suspended:
\* the run is cancelled at its await (CancelledError is not an Exception, so
\* the except block of the run is skipped) and provision_camera raises
\* "timed out after 5 minutes".
Deadline(t) ==
    /\ task[t].pc \in InnerPos
    /\ Commit(t, finished([World(t) EXCEPT !.r.deadline_fired = TRUE],
                          "timed_out"))

\* ------------------------------------------------------------------------
\* The cameras and the BLE stack
\* ------------------------------------------------------------------------
\* What a camera sends on a characteristic: the status and certificate
\* messages of the query characteristic span two packets, the others one.
CameraFrames(s, u) ==
    fragment_payload(Msg(s, IF u = CQ_QUERY_RESP THEN "long" ELSE "short"))

\* The camera sends a message on characteristic u: the BLE stack calls the
\* handler with its first packet, the other packets follow.
CameraSends(t, u) ==
    /\ HandlerCall(u, Head(CameraFrames(task[t].serial, u)))
    /\ UNCHANGED <<provisioning_locks, credentials, wifi, task>>

\* The camera answers the last command written to it.
CameraRespond(t) ==
    /\ task[t].subscribed
    /\ cam[t].awaiting_resp # NoUUID
    /\ cam[t].tx = << >>
    /\ CameraSends(t, cam[t].awaiting_resp)
    /\ cam' = [cam EXCEPT
                 ![t] = [@ EXCEPT
                           !.tx = Tail([i \in 1 .. Len(CameraFrames(task[t].serial, cam[t].awaiting_resp)) |->
                                          << cam[t].awaiting_resp,
                                             CameraFrames(task[t].serial, cam[t].awaiting_resp)[i] >>]),
                           !.awaiting_resp = NoUUID]]

\* The camera sends a notification of its own: the scan and provisioning
\* states that the commands of steps 5 and 7 make it report.
CameraPush(t) ==
    /\ task[t].subscribed
    /\ cam[t].async_left > 0
    /\ cam[t].tx = << >>
    /\ CameraSends(t, CM_NET_MGMT_RESP)
    /\ cam' = [cam EXCEPT ![t].async_left = @ - 1]

\* The BLE stack calls the handler with the next packet of a message.
Deliver(t) ==
    /\ task[t].subscribed
    /\ cam[t].tx # << >>
    /\ HandlerCall(Head(cam[t].tx)[1], Head(cam[t].tx)[2])
    /\ cam' = [cam EXCEPT ![t].tx = Tail(@)]
    /\ UNCHANGED <<provisioning_locks, credentials, wifi, task>>

\* ------------------------------------------------------------------------
\* Provisioning specifications
\* ------------------------------------------------------------------------
InitProv ==
    /\ notification_data = EmptyDict
    /\ queues = EmptyDict
    /\ reassembly_buffers = EmptyDict
    /\ provisioning_locks = EmptyDict
    /\ credentials = DictSet(EmptyDict, "S1", OldRecord)
    /\ wifi = SavedWifi
    /\ task = [t \in Tasks |-> IdleTask]
    /\ cam = [t \in Tasks |-> IdleCam]
    /\ IdleCodec
    /\ IdleCameras

\* The resumptions of a run after an await that completed: in steps 1 to 8,
\* and in steps 9 to 15.
ResumeEarly(t) ==
    \/ Step1(t) \/ Step2(t) \/ Step3(t) \/ Step4(t) \/ Clock(t)
    \/ Step5(t) \/ Step5Response(t) \/ Step5Notification(t)
    \/ Step6(t) \/ Step6Response(t)
    \/ Step7(t) \/ Step7Response(t) \/ Step7Notification(t)
    \/ Step8(t) \/ Step8Poll(t) \/ Step8Response(t) \/ Step8Grace(t)

ResumeLate(t) ==
    \/ Step9(t) \/ Step9Response(t) \/ Step9Sleep(t)
    \/ Step10(t) \/ Step10Response(t) \/ Step10Sleep(t)
    \/ Step11(t) \/ Step11Response(t)
    \/ Step12(t) \/ Step12Response(t)
    \/ Step13(t) \/ Step13Response(t) \/ Step13Sleep(t)
    \/ Step14(t) \/ Step15(t) \/ Disconnected(t)
    \/ HandlerDisconnected(t)

\* The resumptions of a run after an exchange that got no answer.
TimeoutEarly(t) ==
    \/ Step5Failed(t) \/ Step5Timeout(t) \/ Step6Failed(t)
    \/ Step7Failed(t) \/ Step7Timeout(t) \/ Step8Failed(t)

TimeoutLate(t) ==
    \/ Step9Failed(t) \/ Step10Failed(t) \/ Step11Failed(t)
    \/ Step12Failed(t) \/ Step13Failed(t)

Camera(t) == CameraRespond(t) \/ CameraPush(t) \/ Deliver(t)

\* SpecProv: requests arrive at any time, but a request for one serial never
\* arrives while a run for another serial is in flight; every outcome of
\* every await is possible, the expiry of the deadline included.
NoOtherSerialInFlight(s) ==
    \A u \in Tasks : task[u].pc \in InnerPos => task[u].serial = s

NextProv ==
    \/ \E t \in Tasks, s \in Serials :
          /\ s \in RequestSerials(t)
          /\ NoOtherSerialInFlight(s)
          /\ provision_camera(t, s)
          /\ UNCHANGED <<codecVars, camVars>>
    \/ \E t \in Tasks : ResumeEarly(t) /\ UNCHANGED <<codecVars, camVars>>
    \/ \E t \in Tasks : ResumeLate(t) /\ UNCHANGED <<codecVars, camVars>>
    \/ \E t \in Tasks : TimeoutEarly(t) /\ UNCHANGED <<codecVars, camVars>>
    \/ \E t \in Tasks : TimeoutLate(t) /\ UNCHANGED <<codecVars, camVars>>
    \/ \E t \in Tasks : ClockFailed(t) /\ UNCHANGED <<codecVars, camVars>>
    \/ \E t \in Tasks, found \in BOOLEAN : Scan(t, found) /\ UNCHANGED <<codecVars, camVars>>
    \/ \E t \in Tasks, outcome \in {"ok", "Exception", "TimeoutError"} :
          Connect(t, outcome) /\ UNCHANGED <<codecVars, camVars>>
    \/ \E t \in Tasks, ok \in BOOLEAN : Subscribe(t, ok) /\ UNCHANGED <<codecVars, camVars>>
    \/ \E t \in Tasks : DisconnectFails(t) /\ UNCHANGED <<codecVars, camVars>>
    \/ \E t \in Tasks : Deadline(t) /\ UNCHANGED <<codecVars, camVars>>
    \/ \E t \in Tasks : Camera(t) /\ UNCHANGED <<codecVars, camVars>>

SpecProv == InitProv /\ [][NextProv]_vars

\* SpecOverlap: a run for S1 and a run for S2, started at any time, up to
\* their step 8, where their deadline expires.  The cameras are found,
\* connect and answer every command, so that an exchange times out only if
\* its answer went elsewhere.
NextOverlap ==
    \/ \E t \in Tasks :
          provision_camera(t, IF t = 1 THEN "S1" ELSE "S2") /\ UNCHANGED <<codecVars, camVars>>
    \/ \E t \in Tasks : ResumeEarly(t) /\ UNCHANGED <<codecVars, camVars>>
    \/ \E t \in Tasks :
          cam[t].awaiting_resp = NoUUID /\ TimeoutEarly(t) /\ UNCHANGED <<codecVars, camVars>>
    \/ \E t \in Tasks : Scan(t, TRUE) /\ UNCHANGED <<codecVars, camVars>>
    \/ \E t \in Tasks : Connect(t, "ok") /\ UNCHANGED <<codecVars, camVars>>
    \/ \E t \in Tasks : Subscribe(t, TRUE) /\ UNCHANGED <<codecVars, camVars>>
    \/ \E t \in Tasks : task[t].pc = "r9" /\ Deadline(t) /\ UNCHANGED <<codecVars, camVars>>
    \/ \E t \in Tasks : Camera(t) /\ UNCHANGED <<codecVars, camVars>>

SpecOverlap == InitProv /\ [][NextOverlap]_vars

\* ------------------------------------------------------------------------
\* C2
\* ------------------------------------------------------------------------
InFlight(t) == task[t].pc \in InnerPos \cup {"lock_wait"}

\* A request arrives for a serial that has a run in flight.
ArrivesDuringRun(t) ==
    /\ task[t].pc = "idle"
    /\ task'[t].pc # "idle"
    /\ \E u \in Tasks : u # t /\ InFlight(u) /\ task[u].serial = task'[t].serial

\* C2: never are two runs for the same serial in flight; a request that
\* arrives while a run for its serial is in flight ends at once with "already
\* in progress", never waits on the lock, and has executed no step (no
\* progress event, no BLE client).
C2_OneRunPerSerial ==
    /\ [](\A t, u \in Tasks :
            t # u /\ InFlight(t) /\ InFlight(u) => task[t].serial # task[u].serial)
    /\ [](\A t \in Tasks : task[t].pc # "lock_wait")
    /\ [](\A t \in Tasks :
            task[t].result = "already_in_progress"
                => task[t].progress = << >> /\ task[t].client = "None")
    /\ [][\A t \in Tasks :
            ArrivesDuringRun(t)
                => task'[t].pc = "done" /\ task'[t].result = "already_in_progress"]_vars

C2_Witness ==
    \E t, u \in Tasks :
        /\ task[t].result = "already_in_progress"
        /\ task[u].pc \in InnerPos
        /\ task[u].serial = task[t].serial

\* ------------------------------------------------------------------------
\* C3
\* ------------------------------------------------------------------------
\* C3: when the deadline of a run expires, at whichever step, the caller gets
\* the timeout error and the store holds for the serial what it held when the
\* run began.
C3_TimeoutLeavesStore ==
    [][\A t \in Tasks :
          task'[t].deadline_fired /\ ~task[t].deadline_fired
              => /\ task'[t].result = "timed_out"
                 /\ get_credentials(credentials', task[t].serial) = task[t].cred_before]_vars

\* ------------------------------------------------------------------------
\* C4
\* ------------------------------------------------------------------------
\* C4: a run whose deadline expired while its BLE client was connected has
\* attempted a disconnect of that client by the time its caller has the
\* timeout error.
C4_DisconnectOnDeadline ==
    \A t \in Tasks :
        task[t].deadline_fired /\ task[t].client = "connected"
            => task[t].disconnect_calls > 0

\* ------------------------------------------------------------------------
\* C7
\* ------------------------------------------------------------------------
Awaiting(t) == task[t].wait_q # NoQueue

\* C7: with two runs for different serials in flight, a payload a run
\* receives or finds queued for it came from its own camera, the queue a run
\* awaits is the one the dictionary delivers to (no other run's step 3
\* replaced it), and the reassembly buffer of a message a camera is still
\* sending is open and holds that camera's bytes.
C7_ExclusiveTransport ==
    \A t \in Tasks :
        /\ Origin(task[t].resp) \in {NoSerial, task[t].serial}
        /\ Awaiting(t) =>
              /\ \E u \in DOMAIN notification_data :
                    notification_data[u] = task[t].wait_q
              /\ \A i \in 1 .. Len(queues[task[t].wait_q]) :
                    Origin(queues[task[t].wait_q][i]) = task[t].serial
        /\ cam[t].tx # << >> =>
              /\ Head(cam[t].tx)[1] \in DOMAIN reassembly_buffers
              /\ Origin(reassembly_buffers[Head(cam[t].tx)[1]].data) = task[t].serial

\* ------------------------------------------------------------------------
\* camera_manager.py: CameraInstance
\* ------------------------------------------------------------------------
\* The order in which a dict of cameras is iterated.  Python iterates in
\* insertion order; the model fixes the order by serial.
SerialOrder == << "S1", "S2" >>
keys(S) == SelectSeq(SerialOrder, LAMBDA s : s \in S)

\* gopro.is_ble_connected, on a camera that has a handle object.
is_ble_connected(c) == c.handle

\* A variant of update_connection_status whose stale branch leaves recording
\* as it was.
update_connection_status_keeps_recording(c) ==
    IF c.gopro = "GoPro" /\ is_ble_connected(c)
    THEN IF c.bleak = "disconnected"
         THEN [c |-> [c EXCEPT !.handle = FALSE, !.connected = FALSE],
               ret |-> FALSE]
         ELSE [c |-> [c EXCEPT !.connected = TRUE], ret |-> TRUE]
    ELSE [c |-> [c EXCEPT !.connected = FALSE], ret |-> FALSE]

\* CameraInstance.update_connection_status: the camera afterwards and the
\* value returned.  Reading the Bleak client's state may raise, and then the
\* handle alone decides.
update_connection_status(c) ==
    IF c.gopro = "GoPro" /\ is_ble_connected(c)
    THEN IF c.bleak = "disconnected"
         THEN [c |-> [c EXCEPT !.handle = FALSE, !.connected = FALSE,
                               !.recording = FALSE],
               ret |-> FALSE]
         ELSE [c |-> [c EXCEPT !.connected = TRUE], ret |-> TRUE]
    ELSE [c |-> [c EXCEPT !.connected = FALSE], ret |-> FALSE]

\* A variant of _fire_shutter_raw that sets recording before the write.
fire_shutter_raw_sets_recording_first(c, is_start, write) ==
    IF ~c.connected \/ c.gopro = "None" \/ ~is_ble_connected(c)
    THEN [c |-> c, ret |-> FALSE, wrote |-> FALSE]
    ELSE IF write = "ok" /\ c.bleak # "disconnected"
         THEN [c |-> [c EXCEPT !.recording = is_start], ret |-> TRUE, wrote |-> TRUE]
         ELSE [c |-> [c EXCEPT !.recording = is_start], ret |-> FALSE, wrote |-> TRUE]

\* CameraInstance._fire_shutter_raw: the camera afterwards, the value
\* returned, and whether the BLE write was made.  write is what the BLE
\* write does when it is made: "ok" or "raises"; a write over a link that is
\* down raises.
fire_shutter_raw(c, is_start, write) ==
    IF ~c.connected \/ c.gopro = "None" \/ ~is_ble_connected(c)
    THEN [c |-> c, ret |-> FALSE, wrote |-> FALSE]
    ELSE IF write = "ok" /\ c.bleak # "disconnected"
         THEN [c |-> [c EXCEPT !.recording = is_start], ret |-> TRUE, wrote |-> TRUE]
         ELSE [c |-> c, ret |-> FALSE, wrote |-> TRUE]

\* The event loop runs one coroutine at a time, and a shutter batch has no
\* await: from its call to its return nothing else runs on the loop.
LoopFree == batch.pc # "firing"

\* CameraManager.add_camera, from the endpoint that registers a camera.
add_camera(s) ==
    /\ LoopFree
    /\ s \notin DOMAIN cameras
    /\ cameras' = DictSet(cameras, s, CameraInstance)
    /\ UNCHANGED <<removals, ble_busy, batch, monitor, poll_threads, returned>>

\* CameraInstance.connect_ble, one definition per stretch between awaits,
\* each giving the camera afterwards.
\* Up to the first await: a new handle object is made and its open() is
\* handed to the executor.
connect_begin(c) ==
    [c EXCEPT !.gopro = "GoPro", !.handle = FALSE, !.bleak = "disconnected",
              !.call = "open", !.attempt = 0]

\* open() returned within its timeout: the state machine of the handle is
\* disabled, the WiFi AP is switched off, and connect_ble sleeps a second.
open_returned(c, bleak) ==
    [c EXCEPT !.handle = TRUE, !.bleak = bleak, !.call = "wifi"]

\* The sleep is over: connected is set and True returned.
wifi_sleep_over(c) == [c EXCEPT !.connected = TRUE, !.call = "-", !.attempt = 0]

\* open() timed out or raised: the handle's close() is handed to the
\* executor.
open_failed(c) == [c EXCEPT !.call = "close"]

\* A variant of close_returned that keeps the handle object.
close_returned_keeps_handle(c) ==
    IF c.attempt = 0
    THEN [c EXCEPT !.call = "sleep"]
    ELSE [c EXCEPT !.connected = FALSE, !.call = "-", !.attempt = 0]

\* close() is over (whether it raised or not): the handle is dropped; after
\* the first attempt connect_ble sleeps 3 s, after the second it clears
\* connected and returns False.
close_returned(c) ==
    IF c.attempt = 0
    THEN [c EXCEPT !.gopro = "None", !.call = "sleep"]
    ELSE [c EXCEPT !.gopro = "None", !.connected = FALSE, !.call = "-",
                   !.attempt = 0]

\* The 3 s are over: the second round of the loop makes a new handle object
\* and hands its open() to the executor.
backoff_over(c) ==
    [c EXCEPT !.gopro = "GoPro", !.handle = FALSE, !.bleak = "disconnected",
              !.call = "open", !.attempt = 1]

\* connect_ble returns True at once on a camera that is connected.
already_connected(c) == c.connected /\ c.gopro = "GoPro" /\ is_ble_connected(c)

\* A request to connect camera s (POST /api/cameras/connect/{serial}) calls
\* connect_ble, which runs up to open().
connect_ble(s) ==
    /\ LoopFree
    /\ s \in DOMAIN cameras
    /\ cameras[s].call = "-"
    /\ ~already_connected(cameras[s])
    /\ cameras' = [cameras EXCEPT ![s] = connect_begin(@)]
    /\ UNCHANGED <<removals, ble_busy, batch, monitor, poll_threads, returned>>

\* open() returned within its timeout, and nothing else ran on the loop
\* during the sleep that follows: connect_ble marks the camera connected
\* and returns True.
OpenDone(s, bleak) ==
    /\ LoopFree
    /\ s \in DOMAIN cameras
    /\ cameras[s].call = "open"
    /\ cameras' = [cameras EXCEPT ![s] = wifi_sleep_over(open_returned(@, bleak))]
    /\ UNCHANGED <<removals, ble_busy, batch, monitor, poll_threads, returned>>

\* open() timed out or raised, and nothing else ran on the loop while the
\* handle was closed and during the backoff: after the first attempt a
\* second one is made, after the second connect_ble clears connected and
\* returns False.
OpenFailed(s) ==
    /\ LoopFree
    /\ s \in DOMAIN cameras
    /\ cameras[s].call = "open"
    /\ cameras' = [cameras EXCEPT ![s] =
            IF @.attempt = 0
            THEN backoff_over(close_returned(open_failed(@)))
            ELSE close_returned(open_failed(@))]
    /\ UNCHANGED <<removals, ble_busy, batch, monitor, poll_threads, returned>>

\* The camera is switched off or goes out of range: the Bleak client of its
\* handle now reports disconnected.
LinkLost(s) ==
    /\ s \in DOMAIN cameras
    /\ cameras[s].handle
    /\ cameras[s].bleak = "connected"
    /\ cameras' = [cameras EXCEPT ![s].bleak = "disconnected"]
    /\ UNCHANGED <<removals, ble_busy, batch, monitor, poll_threads, returned>>

\* ------------------------------------------------------------------------
\* camera_manager.py: start_recording_all and stop_recording_all
\* ------------------------------------------------------------------------
\* A variant of the snapshot that takes every registered camera.
every_registered(cams) == DOMAIN cams

\* connected = {s: c for s, c in self.cameras.items() if c.connected}
connected_snapshot(cams) == {s \in DOMAIN cams : cams[s].connected}

\* POST /api/recording/start answers 400 without calling start_recording_all
\* when no camera is connected.
StartRejected ==
    /\ LoopFree
    /\ {s \in DOMAIN cameras : cameras[s].connected} = {}
    /\ batch' = [IdleBatch EXCEPT !.pc = "rejected", !.is_start = TRUE]
    /\ UNCHANGED <<removals, cameras, ble_busy, monitor, poll_threads, returned>>

\* start_recording_all (is_start) or stop_recording_all is called, takes its
\* snapshot and returns {} when it is empty.
recording_all(is_start) ==
    /\ LoopFree
    /\ is_start => {s \in DOMAIN cameras : cameras[s].connected} # {}
    /\ LET connected == connected_snapshot(cameras)
       IN  batch' =
             [pc |-> IF connected = {} THEN "returned" ELSE "firing",
              is_start |-> is_start,
              began |-> {s \in DOMAIN cameras : cameras[s].connected},
              connected |-> connected,
              serials |-> keys(connected),
              results |-> EmptyDict,
              fired |-> << >>]
    /\ UNCHANGED <<removals, cameras, ble_busy, monitor, poll_threads, returned>>

\* The next round of the batch's loop: one call of _fire_shutter_raw, whose
\* result goes into the map; after the last camera the map is returned.
FireShutter(write) ==
    /\ batch.pc = "firing"
    /\ LET serial == Head(batch.serials)
           r == fire_shutter_raw(cameras[serial], batch.is_start, write)
       IN  /\ cameras' = [cameras EXCEPT ![serial] = r.c]
           /\ batch' = [batch EXCEPT
                 !.results = DictSet(@, serial, r.ret),
                 !.fired = Append(@, << serial, "_fire_shutter_raw", r.ret >>),
                 !.serials = Tail(@),
                 !.pc = IF Tail(batch.serials) = << >>
                        THEN "returned" ELSE "firing"]
    /\ UNCHANGED <<removals, ble_busy, monitor, poll_threads, returned>>

\* ------------------------------------------------------------------------
\* main.py: connection_monitor, with get_all_battery_levels, get_all_health
\* and the status reads they make through _ble_cmd_in_thread
\* ------------------------------------------------------------------------
\* A status read in flight: the thread started by _ble_cmd_in_thread for a
\* camera; joined says that the poll which started it still waits for it.
PollThread(s, kind) == [serial |-> s, kind |-> kind, joined |-> TRUE]
Lingering == {th \in poll_threads : ~th.joined}

\* What the monitor runs between two awaits is a function of the monitor
\* (m), the registry (cams) and the threads in flight (threads).
MonitorWorld == [m |-> monitor, cams |-> cameras, threads |-> poll_threads]

\* One round of the loop of get_all_battery_levels or get_all_health: a
\* camera that is not connected is answered from the cache; for a connected
\* one get_battery_level / get_health_status refreshes the connection
\* status and, unless the camera turns out not to be connected, starts the
\* status read in a thread and awaits it.
poll_camera(w, kind) ==
    LET s == Head(w.m.serials)
        u == update_connection_status(w.cams[s])
    IN  IF ~w.cams[s].connected
        THEN [w EXCEPT !.m.serials = Tail(@)]
        ELSE IF ~u.c.connected \/ u.c.gopro = "None" \/ ~is_ble_connected(u.c)
             THEN [w EXCEPT !.cams[s] = u.c, !.m.serials = Tail(@)]
             ELSE [w EXCEPT !.cams[s] = u.c,
                            !.threads = @ \cup {PollThread(s, kind)},
                            !.m.pc = kind \o "_wait"]

\* The health part of an iteration: the counter, and when the poll is due
\* the call of get_all_health.
health_check(w) ==
    IF w.m.health_poll_counter + 1 >= HealthPollIterations
    THEN [w EXCEPT !.m.health_poll_counter = 0, !.m.pc = "health",
                   !.m.serials = keys(DOMAIN w.cams)]
    ELSE [w EXCEPT !.m.health_poll_counter = @ + 1, !.m.pc = "sleep"]

\* The monitor runs on from w to its next await: the status read of a poll,
\* or the sleep that ends the iteration.
RECURSIVE run_monitor(_)
run_monitor(w) ==
    IF w.m.pc = "battery"
    THEN IF w.m.serials = << >> THEN run_monitor(health_check(w))
         ELSE run_monitor(poll_camera(w, "battery"))
    ELSE IF w.m.pc = "health"
    THEN IF w.m.serials = << >> THEN [w EXCEPT !.m.pc = "sleep"]
         ELSE run_monitor(poll_camera(w, "health"))
    ELSE w

\* A variant of the iteration without the test of line 229: the polls run
\* whatever ble_busy is.
monitor_iteration_ignores_busy(w, busy) ==
    LET refreshed == [s \in DOMAIN w.cams |-> update_connection_status(w.cams[s])]
        w1 == [w EXCEPT !.cams = [s \in DOMAIN w.cams |-> refreshed[s].c],
                        !.m.previous_states =
                            [s \in DOMAIN w.cams |-> refreshed[s].ret],
                        !.m.skipped = busy]
    IN  IF w1.m.battery_poll_counter + 1 >= BatteryPollIterations
        THEN [w1 EXCEPT !.m.battery_poll_counter = 0, !.m.pc = "battery",
                        !.m.serials = keys(DOMAIN w1.cams)]
        ELSE health_check([w1 EXCEPT !.m.battery_poll_counter = @ + 1])

\* The head of an iteration: the connection status of every camera is
\* refreshed and remembered, and unless ble_busy is set the battery counter
\* advances and, when the poll is due, get_all_battery_levels is called.
\* skipped records that the last iteration found ble_busy set.
monitor_iteration(w, busy) ==
    LET refreshed == [s \in DOMAIN w.cams |-> update_connection_status(w.cams[s])]
        w1 == [w EXCEPT !.cams = [s \in DOMAIN w.cams |-> refreshed[s].c],
                        !.m.previous_states =
                            [s \in DOMAIN w.cams |-> refreshed[s].ret],
                        !.m.skipped = busy]
    IN  IF busy THEN [w1 EXCEPT !.m.pc = "sleep"]
        ELSE IF w1.m.battery_poll_counter + 1 >= BatteryPollIterations
        THEN [w1 EXCEPT !.m.battery_poll_counter = 0, !.m.pc = "battery",
                        !.m.serials = keys(DOMAIN w1.cams)]
        ELSE health_check([w1 EXCEPT !.m.battery_poll_counter = @ + 1])

MonitorCommit(w) ==
    /\ monitor' = w.m
    /\ cameras' = w.cams
    /\ poll_threads' = w.threads
    /\ UNCHANGED <<removals, ble_busy, batch, returned>>

\* asyncio.sleep(0.5) is over: the next iteration is due.
MonitorWake ==
    /\ monitor.pc = "sleep"
    /\ monitor' = [monitor EXCEPT !.pc = "refresh"]
    /\ UNCHANGED <<removals, cameras, ble_busy, batch, poll_threads, returned>>

\* The monitor gets the event loop and runs an iteration up to its next await.
MonitorIteration ==
    /\ LoopFree
    /\ monitor.pc = "refresh"
    /\ MonitorCommit(run_monitor(monitor_iteration(MonitorWorld, ble_busy)))

\* The status read a poll awaits has been answered or has timed out, and the
\* monitor gets the event loop: the poll goes on with the next camera.
MonitorResume ==
    /\ LoopFree
    /\ monitor.pc \in {"battery_wait", "health_wait"}
    /\ monitor.reply # "-"
    /\ MonitorCommit(run_monitor(
          [MonitorWorld EXCEPT
              !.m.pc = IF monitor.pc = "battery_wait" THEN "battery" ELSE "health",
              !.m.reply = "-",
              !.m.serials = Tail(@)]))

\* A status read ends in its thread (with a value or an error); the poll
\* that joined it gets the answer.
PollThreadEnds(th) ==
    /\ th \in poll_threads
    /\ poll_threads' = poll_threads \ {th}
    /\ monitor' = IF th.joined THEN [monitor EXCEPT !.reply = "answered"]
                  ELSE monitor
    /\ UNCHANGED <<removals, cameras, ble_busy, batch, returned>>

\* t.join(timeout) gives up: _ble_cmd_in_thread returns (None, "timeout")
\* and the thread goes on running.
PollJoinTimeout(th) ==
    /\ th \in poll_threads
    /\ th.joined
    /\ Cardinality(Lingering) < MaxLingering
    /\ poll_threads' = (poll_threads \ {th}) \cup {[th EXCEPT !.joined = FALSE]}
    /\ monitor' = [monitor EXCEPT !.reply = "timeout"]
    /\ UNCHANGED <<removals, cameras, ble_busy, batch, returned>>

\* ------------------------------------------------------------------------
\* Camera specification
\* ------------------------------------------------------------------------
InitCam ==
    /\ notification_data = EmptyDict
    /\ queues = EmptyDict
    /\ reassembly_buffers = EmptyDict
    /\ IdleProv
    /\ IdleCodec
    /\ IdleCameras

NextCam ==
    \/ \E s \in Serials : add_camera(s) /\ UNCHANGED <<cohnVars, provVars, codecVars>>
    \/ \E s \in Serials : connect_ble(s) /\ UNCHANGED <<cohnVars, provVars, codecVars>>
    \/ \E s \in Serials, b \in {"connected", "raises"} :
          OpenDone(s, b) /\ UNCHANGED <<cohnVars, provVars, codecVars>>
    \/ \E s \in Serials : OpenFailed(s) /\ UNCHANGED <<cohnVars, provVars, codecVars>>
    \/ \E s \in Serials : LinkLost(s) /\ UNCHANGED <<cohnVars, provVars, codecVars>>
    \/ StartRejected /\ UNCHANGED <<cohnVars, provVars, codecVars>>
    \/ \E is_start \in BOOLEAN :
          recording_all(is_start) /\ UNCHANGED <<cohnVars, provVars, codecVars>>
    \/ \E write \in {"ok", "raises"} :
          FireShutter(write) /\ UNCHANGED <<cohnVars, provVars, codecVars>>
    \/ MonitorWake /\ UNCHANGED <<cohnVars, provVars, codecVars>>
    \/ MonitorIteration /\ UNCHANGED <<cohnVars, provVars, codecVars>>
    \/ MonitorResume /\ UNCHANGED <<cohnVars, provVars, codecVars>>
    \/ \E th \in poll_threads :
          PollThreadEnds(th) /\ UNCHANGED <<cohnVars, provVars, codecVars>>
    \/ \E th \in poll_threads :
          PollJoinTimeout(th) /\ UNCHANGED <<cohnVars, provVars, codecVars>>

SpecCam == InitCam /\ [][NextCam]_vars

\* ------------------------------------------------------------------------
\* C5, C6
\* ------------------------------------------------------------------------
BatchInFlight == batch.pc = "firing"

\* C5: ble_busy is true in every state in which a start_recording_all or
\* stop_recording_all call is in flight, and false in every state in which
\* none is.
C5_BusyWhileBatch == BatchInFlight <=> ble_busy

\* C6: while a shutter batch is firing its writes no status read started by
\* a battery or health poll of connection_monitor is running, whether it was
\* started before the batch or not.
C6_NoPollDuringBatch == BatchInFlight => poll_threads = {}

\* ------------------------------------------------------------------------
\* C8, C9
\* ------------------------------------------------------------------------
\* C8: the map a batch returns has a boolean for exactly the registered
\* cameras whose connected flag was true when the call began, whatever the
\* writes did; with no such camera it is empty.
C8_ResultKeys ==
    batch.pc = "returned" =>
        /\ DOMAIN batch.results = batch.began
        /\ \A s \in DOMAIN batch.results : batch.results[s] \in BOOLEAN
        /\ batch.began = {} => batch.results = EmptyDict

\* A batch over two cameras returned with one write made and one failed.
C8_Witness ==
    /\ batch.pc = "returned"
    /\ \E s, u \in DOMAIN batch.results : batch.results[s] /\ ~batch.results[u]

\* The shutter attempts the batch made for camera s, in order.
Attempts(s) == SelectSeq(batch.fired, LAMBDA a : a[1] = s)

\* C9: when a batch returns, every camera whose first shutter attempt failed
\* has had exactly one more attempt, made through the single-camera
\* start_recording / stop_recording.
C9_FailedRetriedOnce ==
    batch.pc = "returned" =>
        \A s \in batch.began :
            (Attempts(s) # << >> /\ ~Attempts(s)[1][3]) =>
                /\ Len(Attempts(s)) = 2
                /\ Attempts(s)[2][2] \in {"start_recording", "stop_recording"}

\* ------------------------------------------------------------------------
\* C10
\* ------------------------------------------------------------------------
\* The handle object still reports BLE connected and its Bleak client
\* reports disconnected.
Stale(c) == c.gopro = "GoPro" /\ is_ble_connected(c) /\ c.bleak = "disconnected"

\* C10: when connection_monitor refreshes the status of a camera whose
\* handle is stale, update_connection_status returns False and the camera's
\* connected and recording are False afterwards.
C10_StaleHandle ==
    [][(monitor.pc = "refresh" /\ monitor'.pc # "refresh") =>
          \A s \in DOMAIN cameras :
              Stale(cameras[s]) =>
                  /\ monitor'.previous_states[s] = FALSE
                  /\ ~cameras'[s].connected
                  /\ ~cameras'[s].recording]_vars

\* A camera that the last batch set recording has since been found with a
\* stale handle: the handle is cleared, and connected and recording are off.
C10_Witness ==
    \E s \in DOMAIN cameras :
        /\ batch.pc = "returned" /\ batch.is_start
        /\ s \in DOMAIN batch.results /\ batch.results[s]
        /\ cameras[s].gopro = "GoPro" /\ ~cameras[s].handle
        /\ cameras[s].call = "-"
        /\ s \in DOMAIN monitor.previous_states
        /\ monitor.previous_states[s] = FALSE
        /\ ~cameras[s].connected /\ ~cameras[s].recording

\* ------------------------------------------------------------------------
\* camera_manager.py: CameraInstance.probe_ble_alive
\* ------------------------------------------------------------------------
\* What the keep-alive write of a probe does: it is answered ("ok"), it
\* returns an error, it outlives the 5 s join ("timeout"), or starting it
\* raises.
ProbeOutcomes == {"ok", "error", "timeout", "raises"}

\* A variant of probe_ble_alive that marks the camera disconnected when the
\* keep-alive fails.
probe_ble_alive_disconnects(c, outcome) ==
    IF c.gopro = "None" \/ ~c.connected
    THEN [c |-> c, ret |-> FALSE, wrote |-> FALSE]
    ELSE IF outcome = "ok"
         THEN [c |-> c, ret |-> TRUE, wrote |-> TRUE]
         ELSE [c |-> [c EXCEPT !.connected = FALSE], ret |-> FALSE,
               wrote |-> outcome # "raises"]

\* CameraInstance.probe_ble_alive: the camera afterwards, the value
\* returned, and whether a keep-alive thread was started.
probe_ble_alive(c, outcome) ==
    IF c.gopro = "None" \/ ~c.connected
    THEN [c |-> c, ret |-> FALSE, wrote |-> FALSE]
    ELSE [c |-> c, ret |-> (outcome = "ok"), wrote |-> outcome # "raises"]

\* probe_ble_alive is called on camera s.  It is synchronous: it returns
\* when the keep-alive thread has ended or the join has timed out, and in
\* the latter case the thread goes on running.
Probe(s, outcome) ==
    /\ LoopFree
    /\ s \in DOMAIN cameras
    /\ LET r == probe_ble_alive(cameras[s], outcome)
           lingers == r.wrote /\ outcome = "timeout"
       IN  /\ lingers => Cardinality(Lingering) < MaxLingering
           /\ cameras' = [cameras EXCEPT ![s] = r.c]
           /\ returned' = [op |-> "probe_ble_alive", serial |-> s, ret |-> r.ret]
           /\ poll_threads' =
                 IF lingers
                 THEN poll_threads \cup
                        {[serial |-> s, kind |-> "keep_alive", joined |-> FALSE]}
                 ELSE poll_threads
    /\ UNCHANGED <<removals, ble_busy, batch, monitor>>

\* One camera with its connects, its link, the shutter batches, the monitor,
\* and probes.
NextProbe ==
    \/ add_camera("S1") /\ UNCHANGED <<cohnVars, provVars, codecVars>>
    \/ connect_ble("S1") /\ UNCHANGED <<cohnVars, provVars, codecVars>>
    \/ \E b \in {"connected", "raises"} :
          OpenDone("S1", b) /\ UNCHANGED <<cohnVars, provVars, codecVars>>
    \/ OpenFailed("S1") /\ UNCHANGED <<cohnVars, provVars, codecVars>>
    \/ LinkLost("S1") /\ UNCHANGED <<cohnVars, provVars, codecVars>>
    \/ \E is_start \in BOOLEAN :
          recording_all(is_start) /\ UNCHANGED <<cohnVars, provVars, codecVars>>
    \/ \E write \in {"ok", "raises"} :
          FireShutter(write) /\ UNCHANGED <<cohnVars, provVars, codecVars>>
    \/ MonitorWake /\ UNCHANGED <<cohnVars, provVars, codecVars>>
    \/ MonitorIteration /\ UNCHANGED <<cohnVars, provVars, codecVars>>
    \/ MonitorResume /\ UNCHANGED <<cohnVars, provVars, codecVars>>
    \/ \E th \in poll_threads :
          PollThreadEnds(th) /\ UNCHANGED <<cohnVars, provVars, codecVars>>
    \/ \E outcome \in ProbeOutcomes :
          Probe("S1", outcome) /\ UNCHANGED <<cohnVars, provVars, codecVars>>

SpecProbe == InitCam /\ [][NextProbe]_vars

\* ------------------------------------------------------------------------
\* C11
\* ------------------------------------------------------------------------
\* C11: a probe_ble_alive call, whatever its outcome, leaves connected and
\* recording of every camera as they were; and connected goes from True to
\* False only in a state in which update_connection_status itself finds the
\* link down.
C11_ProbeAdvisory ==
    [][\A s \in DOMAIN cameras :
          /\ (returned' # returned /\ returned'.op = "probe_ble_alive") =>
                /\ cameras'[s].connected = cameras[s].connected
                /\ cameras'[s].recording = cameras[s].recording
          /\ (cameras[s].connected /\ ~cameras'[s].connected) =>
                ~update_connection_status(cameras[s]).ret]_vars

\* A probe of a connected, recording camera failed, and the camera is still
\* marked connected and recording.
C11_Witness ==
    /\ returned.op = "probe_ble_alive"
    /\ ~returned.ret
    /\ returned.serial \in DOMAIN cameras
    /\ cameras[returned.serial].gopro = "GoPro"
    /\ cameras[returned.serial].connected
    /\ cameras[returned.serial].recording

\* ------------------------------------------------------------------------
\* C12, C13
\* ------------------------------------------------------------------------
\* The steps whose failure is fatal by name: the scan of step 1, the
\* certificate creation of step 10, the address validation of step 12.
FatalSteps == {1, 10, 12}

\* Run t ends here with an exception raised in step n (the last step it
\* reported), not with its deadline.
AbortsIn(t, n) ==
    /\ task[t].pc \in InnerPos
    /\ task'[t].pc = "done"
    /\ task'[t].result \in {"error", "timed_out"}
    /\ ~task'[t].deadline_fired
    /\ task'[t].progress # << >>
    /\ task'[t].progress[Len(task'[t].progress)] = n

\* C12: when a run ends with the exception of a fatal step (camera not
\* found in the scan, certificate creation failed, no valid IP), the
\* credential record of its serial is what it was when the run began: none
\* if there was none, the same record otherwise.
C12_FatalAbortKeepsStore ==
    [][\A t \in Tasks, n \in FatalSteps :
          AbortsIn(t, n) =>
              /\ get_credentials(credentials', task[t].serial) = task[t].cred_before
              /\ is_provisioned(credentials', task[t].serial)
                     = (task[t].cred_before # NoRecord)]_vars

\* A run for a serial that had a record ended in step 12, and the record is
\* still the old one.
C12_Witness ==
    \E t \in Tasks :
        /\ task[t].pc = "done" /\ task[t].result = "error"
        /\ ~task[t].deadline_fired
        /\ task[t].progress # << >>
        /\ task[t].progress[Len(task[t].progress)] = 12
        /\ task[t].cred_before = OldRecord
        /\ get_credentials(credentials, task[t].serial) = OldRecord

\* Step 14 has not run yet in run t: the run is in flight and has not
\* reported step 15.
BeforePersist(t) ==
    /\ task[t].pc \in InnerPos
    /\ \A i \in 1 .. Len(task[t].progress) : task[t].progress[i] < 15

\* C13: while a run is in steps 1 to 13 (and up to the write of step 14)
\* get_credentials and is_provisioned give for its serial what they gave
\* before the run; a serial's record changes only in the step 14 of a run
\* for that serial, and the record written has a validated IP address.
C13_VisibleAtPersist ==
    /\ [](\A t \in Tasks :
            BeforePersist(t) =>
                /\ get_credentials(credentials, task[t].serial) = task[t].cred_before
                /\ is_provisioned(credentials, task[t].serial)
                       = (task[t].cred_before # NoRecord))
    /\ [][\A s \in Serials :
            get_credentials(credentials', s) # get_credentials(credentials, s) =>
                /\ \E t \in Tasks : task[t].pc = "r14" /\ task[t].serial = s
                /\ HasDot(credentials'[s].ip_address)]_vars

\* A run has passed step 14 and its serial's record is a new one.
C13_Witness ==
    \E t \in Tasks :
        /\ task[t].pc = "r15"
        /\ is_provisioned(credentials, task[t].serial)
        /\ get_credentials(credentials, task[t].serial) # task[t].cred_before

\* ------------------------------------------------------------------------
\* camera_manager.py: connect_ble await by await, and
\* check_existing_connections with _check_single_connection
\* ------------------------------------------------------------------------
Returned(op, s, ret) == [op |-> op, serial |-> s, ret |-> ret]

\* POST /api/cameras/connect/{serial}: connect_ble is called on a camera no
\* call is working on; it returns True at once if the camera is connected
\* and runs up to open() otherwise.
ConnectCall(s) ==
    /\ LoopFree
    /\ s \in DOMAIN cameras
    /\ cameras[s].call = "-"
    /\ IF already_connected(cameras[s])
       THEN /\ returned' = Returned("connect_ble", s, TRUE)
            /\ UNCHANGED cameras
       ELSE /\ cameras' = [cameras EXCEPT ![s] = connect_begin(@)]
            /\ UNCHANGED returned
    /\ UNCHANGED <<removals, ble_busy, batch, monitor, poll_threads>>

OpenReturns(s, bleak) ==
    /\ LoopFree
    /\ s \in DOMAIN cameras
    /\ cameras[s].call = "open"
    /\ cameras' = [cameras EXCEPT ![s] = open_returned(@, bleak)]
    /\ UNCHANGED <<removals, ble_busy, batch, monitor, poll_threads, returned>>

WifiSleepOver(s) ==
    /\ LoopFree
    /\ s \in DOMAIN cameras
    /\ cameras[s].call = "wifi"
    /\ cameras' = [cameras EXCEPT ![s] = wifi_sleep_over(@)]
    /\ returned' = Returned("connect_ble", s, TRUE)
    /\ UNCHANGED <<removals, ble_busy, batch, monitor, poll_threads>>

OpenFails(s) ==
    /\ LoopFree
    /\ s \in DOMAIN cameras
    /\ cameras[s].call = "open"
    /\ cameras' = [cameras EXCEPT ![s] = open_failed(@)]
    /\ UNCHANGED <<removals, ble_busy, batch, monitor, poll_threads, returned>>

CloseReturns(s) ==
    /\ LoopFree
    /\ s \in DOMAIN cameras
    /\ cameras[s].call = "close"
    /\ cameras' = [cameras EXCEPT ![s] = close_returned(@)]
    /\ returned' = IF cameras[s].attempt = 0 THEN returned
                   ELSE Returned("connect_ble", s, FALSE)
    /\ UNCHANGED <<removals, ble_busy, batch, monitor, poll_threads>>

BackoffOver(s) ==
    /\ LoopFree
    /\ s \in DOMAIN cameras
    /\ cameras[s].call = "sleep"
    /\ cameras' = [cameras EXCEPT ![s] = backoff_over(@)]
    /\ UNCHANGED <<removals, ble_busy, batch, monitor, poll_threads, returned>>

\* _check_single_connection up to its await: a new handle object, whose
\* open(timeout=5, retries=1) is handed to the executor.
check_begin(c) ==
    [c EXCEPT !.gopro = "GoPro", !.handle = FALSE, !.bleak = "disconnected",
              !.call = "check", !.attempt = 0]

\* check_existing_connections: every camera that is not connected gets a
\* _check_single_connection task, and asyncio.gather starts them all.  It
\* is called while no other call works on those cameras.
check_existing_connections ==
    /\ LoopFree
    /\ \E s \in DOMAIN cameras : ~already_connected(cameras[s])
    /\ \A s \in DOMAIN cameras :
          ~already_connected(cameras[s]) => cameras[s].call = "-"
    /\ cameras' = [s \in DOMAIN cameras |->
                      IF already_connected(cameras[s]) THEN cameras[s]
                      ELSE check_begin(cameras[s])]
    /\ UNCHANGED <<removals, ble_busy, batch, monitor, poll_threads, returned>>

\* The quick open() returned: the camera is marked connected, True returned.
CheckOpenReturns(s, bleak) ==
    /\ LoopFree
    /\ s \in DOMAIN cameras
    /\ cameras[s].call = "check"
    /\ cameras' = [cameras EXCEPT ![s] =
            [@ EXCEPT !.handle = TRUE, !.bleak = bleak, !.connected = TRUE,
                      !.call = "-"]]
    /\ returned' = Returned("_check_single_connection", s, TRUE)
    /\ UNCHANGED <<removals, ble_busy, batch, monitor, poll_threads>>

\* The quick open() timed out or raised: close() is handed to the executor.
CheckOpenFails(s) ==
    /\ LoopFree
    /\ s \in DOMAIN cameras
    /\ cameras[s].call = "check"
    /\ cameras' = [cameras EXCEPT ![s].call = "check_close"]
    /\ UNCHANGED <<removals, ble_busy, batch, monitor, poll_threads, returned>>

\* close() is over: the handle is dropped, connected cleared, False returned.
CheckCloseReturns(s) ==
    /\ LoopFree
    /\ s \in DOMAIN cameras
    /\ cameras[s].call = "check_close"
    /\ cameras' = [cameras EXCEPT ![s] =
            [@ EXCEPT !.gopro = "None", !.connected = FALSE, !.call = "-"]]
    /\ returned' = Returned("_check_single_connection", s, FALSE)
    /\ UNCHANGED <<removals, ble_busy, batch, monitor, poll_threads>>

\* The registry, the connects, the links and the monitor.
NextConnect ==
    \/ \E s \in Serials : add_camera(s) /\ UNCHANGED <<cohnVars, provVars, codecVars>>
    \/ \E s \in Serials : ConnectCall(s) /\ UNCHANGED <<cohnVars, provVars, codecVars>>
    \/ \E s \in Serials, b \in {"connected", "raises"} :
          OpenReturns(s, b) /\ UNCHANGED <<cohnVars, provVars, codecVars>>
    \/ \E s \in Serials : WifiSleepOver(s) /\ UNCHANGED <<cohnVars, provVars, codecVars>>
    \/ \E s \in Serials : OpenFails(s) /\ UNCHANGED <<cohnVars, provVars, codecVars>>
    \/ \E s \in Serials : CloseReturns(s) /\ UNCHANGED <<cohnVars, provVars, codecVars>>
    \/ \E s \in Serials : BackoffOver(s) /\ UNCHANGED <<cohnVars, provVars, codecVars>>
    \/ check_existing_connections /\ UNCHANGED <<cohnVars, provVars, codecVars>>
    \/ \E s \in Serials, b \in {"connected", "raises"} :
          CheckOpenReturns(s, b) /\ UNCHANGED <<cohnVars, provVars, codecVars>>
    \/ \E s \in Serials : CheckOpenFails(s) /\ UNCHANGED <<cohnVars, provVars, codecVars>>
    \/ \E s \in Serials : CheckCloseReturns(s) /\ UNCHANGED <<cohnVars, provVars, codecVars>>
    \/ \E s \in Serials : LinkLost(s) /\ UNCHANGED <<cohnVars, provVars, codecVars>>
    \/ MonitorWake /\ UNCHANGED <<cohnVars, provVars, codecVars>>
    \/ MonitorIteration /\ UNCHANGED <<cohnVars, provVars, codecVars>>
    \/ MonitorResume /\ UNCHANGED <<cohnVars, provVars, codecVars>>
    \/ \E th \in poll_threads :
          PollThreadEnds(th) /\ UNCHANGED <<cohnVars, provVars, codecVars>>

SpecConnect == InitCam /\ [][NextConnect]_vars

\* ------------------------------------------------------------------------
\* C14, C15
\* ------------------------------------------------------------------------
\* The cameras whose handle open() is running in the executor.
OpensInFlight == {s \in DOMAIN cameras : cameras[s].call \in {"open", "check"}}

\* C14: at most one handle open() is in flight at any time.
C14_ConnectsSerialized == Cardinality(OpensInFlight) <= 1

\* connect_ble on camera s returns in this step.
ConnectReturns(s) ==
    \/ cameras[s].call \in {"close", "wifi"} /\ cameras'[s].call = "-"
    \/ /\ cameras[s].call = "-"
       /\ returned' # returned
       /\ returned' = Returned("connect_ble", s, returned'.ret)

MaxFed == 5

\* Continuation packets (bit 7 set) that belong to no message.
StrayFrames == { <<128>>, <<128, 7>>, <<255, 1, 2>> }

\* Payloads of two and of three packets.
StrayLens == {19, 40}

\* A message of two or three packets waits on the wire of one
\* characteristic; queues are registered for that characteristic alone or
\* for all three.
InitStray ==
    /\ \E len \in StrayLens, seed \in BigSeeds, u \in NotifyUUIDs :
       \E registered \in { {u}, NotifyUUIDs } :
          /\ sent = [len |-> len, seed |-> seed, uuid |-> u]
          /\ wire = [NoFrames EXCEPT ![u] = fragment_payload(MakePayload(len, seed))]
          /\ notification_data = [v \in registered |-> NewQueue(0, v)]
          /\ queues = [q \in {NewQueue(0, v) : v \in registered} |-> << >>]
    /\ reassembly_buffers = EmptyDict
    /\ fed = 0
    /\ varint = IdleVarint
    /\ proto = IdleProto
    /\ IdleProv
    /\ IdleCameras

\* A stray continuation packet arrives on characteristic u, ahead of the
\* frames still waiting there.
StrayArrives(u, raw) ==
    /\ fed + Len(wire[CQ_COMMAND_RESP]) + Len(wire[CQ_QUERY_RESP])
           + Len(wire[CM_NET_MGMT_RESP]) < MaxFed
    /\ wire' = [wire EXCEPT ![u] = << raw >> \o @]
    /\ UNCHANGED <<sent, fed, varint, proto, cohnVars, provVars, camVars>>

NextStray ==
    \/ \E u \in NotifyUUIDs : Notify(u)
    \/ \E u \in NotifyUUIDs, raw \in StrayFrames : StrayArrives(u, raw)

SpecStray == InitStray /\ [][NextStray]_vars

\* ------------------------------------------------------------------------
\* C16
\* ------------------------------------------------------------------------
\* The handler of characteristic u is called, in this step, with a
\* continuation packet while u has no reassembly buffer.
ContinuationWithoutStart(u) ==
    /\ wire[u] # << >>
    /\ wire' = [wire EXCEPT ![u] = Tail(@)]
    /\ BitAnd(Head(wire[u])[1], 128) # 0
    /\ u \notin DOMAIN reassembly_buffers

\* C16: a continuation packet for a characteristic with no open reassembly
\* buffer is dropped: nothing is put on any queue, no buffer is created, and
\* the buffers and queues of the other characteristics stay as they are.
C16_StrayContinuationDropped ==
    [][\A u \in NotifyUUIDs :
          ContinuationWithoutStart(u) =>
              /\ reassembly_buffers' = reassembly_buffers
              /\ queues' = queues
              /\ notification_data' = notification_data]_vars

\* Two frames went through the handlers, the first packet of the message and
\* one stray continuation that found no buffer: the message's buffer holds
\* the first packet's bytes only, and every queue is empty.
C16_Witness ==
    /\ fed = 2
    /\ Len(wire[sent.uuid]) = Len(fragment_payload(payload)) - 1
    /\ \A u \in NotifyUUIDs \ {sent.uuid} : wire[u] = << >>
    /\ DOMAIN reassembly_buffers = {sent.uuid}
    /\ reassembly_buffers[sent.uuid].data = Slice(payload, 0, MAX_PACKET_SIZE - 2)
    /\ \A q \in DOMAIN queues : queues[q] = << >>

\* ------------------------------------------------------------------------
\* C17
\* ------------------------------------------------------------------------
\* The frames _fragment_payload returned, before any of them is notified.
Fragmented == wire[sent.uuid]

MaxDigits == 10

max_shift == 63

DigitValues == {0, 1, 127}

\* The integers of at most MaxDigits digits over DigitValues: 0, 1, 127,
\* 128, ... up to 2^(7 * MaxDigits) - 1.
VarintValues ==
    { << >> } \cup
    UNION { {v \in [1 .. k -> DigitValues] : v[k] # 0} : k \in 1 .. MaxDigits }

\* Buffers of k continuation bytes, with or without a last byte that has
\* bit 7 clear.
VarintBuffers ==
    { [i \in 1 .. k |-> b] \o t :
        k \in 0 .. MaxDigits + 1, b \in {128, 255},
        t \in { << >>, <<0>>, <<1>>, <<127>> } }

\* An integer's digits without leading zeros.
RECURSIVE Normalize(_)
Normalize(v) ==
    IF v = << >> THEN << >>
    ELSE IF v[Len(v)] = 0 THEN Normalize(SubSeq(v, 1, Len(v) - 1))
    ELSE v

\* An encoder that leaves the continuation bit out.
RECURSIVE encode_varint_plain(_)
encode_varint_plain(value) ==
    LET low == IF value = << >> THEN 0 ELSE value[1]
    IN  IF Len(value) > 1
        THEN << low >> \o encode_varint_plain(Tail(value))
        ELSE << low >>

\* _encode_varint: value > 0x7F is "more than one digit", value & 0x7F the
\* lowest digit, value >>= 7 drops it.
RECURSIVE encode_varint(_)
encode_varint(value) ==
    LET low == IF value = << >> THEN 0 ELSE value[1]
    IN  IF Len(value) > 1
        THEN << BitOr(low, 128) >> \o encode_varint(Tail(value))
        ELSE << low >>

\* A decode loop without the check of shift against max_shift.
decode_iteration_unlimited(st) ==
    IF st.offset >= Len(st.data)
    THEN [st EXCEPT !.pc = "raised", !.raises = "Truncated varint"]
    ELSE LET byte == st.data[st.offset + 1]
             place == st.shift \div 7 + 1
             result == Normalize(
                 [i \in 1 .. place |->
                     BitOr(IF i <= Len(st.result) THEN st.result[i] ELSE 0,
                           IF i = place THEN BitAnd(byte, 127) ELSE 0)])
         IN  IF BitAnd(byte, 128) = 0
             THEN [st EXCEPT !.pc = "returned", !.result = result,
                             !.offset = @ + 1]
             ELSE [st EXCEPT !.result = result, !.offset = @ + 1,
                             !.shift = @ + 7]

\* One pass of the while loop of _decode_varint, or the raise that follows
\* the loop.  result |= (byte & 0x7F) << shift writes the digit at place
\* shift / 7.
decode_iteration(st) ==
    IF st.offset >= Len(st.data)
    THEN [st EXCEPT !.pc = "raised", !.raises = "Truncated varint"]
    ELSE LET byte == st.data[st.offset + 1]
             place == st.shift \div 7 + 1
             result == Normalize(
                 [i \in 1 .. place |->
                     BitOr(IF i <= Len(st.result) THEN st.result[i] ELSE 0,
                           IF i = place THEN BitAnd(byte, 127) ELSE 0)])
         IN  IF BitAnd(byte, 128) = 0
             THEN [st EXCEPT !.pc = "returned", !.result = result,
                             !.offset = @ + 1]
             ELSE IF st.shift + 7 > max_shift
             THEN [st EXCEPT !.pc = "raised", !.raises = "Varint too long",
                             !.result = result, !.offset = @ + 1,
                             !.shift = @ + 7]
             ELSE [st EXCEPT !.result = result, !.offset = @ + 1,
                             !.shift = @ + 7]

\* The caller has an integer to encode and decode again, or a buffer to
\* decode.
InitVarint ==
    /\ \/ \E v \in VarintValues :
             varint = [IdleVarint EXCEPT !.pc = "encode", !.input = "value",
                                         !.value = v]
       \/ \E b \in VarintBuffers :
             varint = [IdleVarint EXCEPT !.pc = "decode", !.input = "data",
                                         !.data = b]
    /\ proto = IdleProto
    /\ sent = [len |-> 0, seed |-> 0, uuid |-> NoUUID]
    /\ wire = NoFrames
    /\ fed = 0
    /\ notification_data = EmptyDict
    /\ queues = EmptyDict
    /\ reassembly_buffers = EmptyDict
    /\ IdleProv
    /\ IdleCameras

\* data = self._encode_varint(value)
EncodeVarint ==
    /\ varint.pc = "encode"
    /\ varint' = [varint EXCEPT !.pc = "decode", !.data = encode_varint(varint.value)]
    /\ UNCHANGED <<sent, wire, fed, proto, cohnVars, provVars, camVars>>

\* self._decode_varint(data) is called: result = 0, shift = 0, offset = 0.
DecodeCall ==
    /\ varint.pc = "decode"
    /\ varint' = [varint EXCEPT !.pc = "loop", !.result = << >>, !.shift = 0,
                                !.offset = 0]
    /\ UNCHANGED <<sent, wire, fed, proto, cohnVars, provVars, camVars>>

DecodeIteration ==
    /\ varint.pc = "loop"
    /\ varint' = decode_iteration(varint)
    /\ UNCHANGED <<sent, wire, fed, proto, cohnVars, provVars, camVars>>

NextVarint == EncodeVarint \/ DecodeCall \/ DecodeIteration

SpecVarint == InitVarint /\ [][NextVarint]_vars

\* _decode_varint alone, on the buffers.
InitDecode == InitVarint /\ varint.input = "data"

NextDecode == DecodeCall \/ DecodeIteration

\* The call is synchronous code: once made it runs on.
FairDecode == InitDecode /\ [][NextDecode]_vars /\ WF_vars(NextDecode)

\* ------------------------------------------------------------------------
\* C18, C19, C20
\* ------------------------------------------------------------------------
\* _decode_varint is over.
DecodeOver == varint.pc \in {"returned", "raised"}

\* C18: for an integer n with 0 <= n < 2^63 (at most 63 / 7 digits),
\* _decode_varint(_encode_varint(n)) returns n and the number of encoded
\* bytes as offset.
C18_VarintRoundTrip ==
    (DecodeOver /\ varint.input = "value" /\ 7 * Len(varint.value) <= 63) =>
        /\ varint.pc = "returned"
        /\ varint.result = varint.value
        /\ varint.offset = Len(varint.data)

\* 2^63 - 1 went through both functions: nine bytes, and the value is back.
C18_Witness ==
    /\ varint.pc = "returned"
    /\ varint.input = "value"
    /\ varint.value = [i \in 1 .. 9 |-> 127]
    /\ varint.result = varint.value
    /\ varint.offset = 9

\* The first nine bytes of a longer buffer all have the continuation bit.
NotTerminatedWithin9 ==
    /\ Len(varint.data) > 9
    /\ \A i \in 1 .. 9 : BitAnd(varint.data[i], 128) # 0

\* C19: a varint that has not ended within 9 bytes makes _decode_varint
\* raise the too-long error; no encoding of more than 9 bytes is returned
\* as a value.
C19_NoVarintBeyond9Bytes ==
    (DecodeOver /\ NotTerminatedWithin9) =>
        varint.pc = "raised" /\ varint.raises = "Varint too long"

\* The buffer handed to _decode_varint is 10 bytes, each with bit 7 set.
AllContinuation10 ==
    /\ varint.input = "data"
    /\ Len(varint.data) = 10
    /\ \A i \in 1 .. 10 : BitAnd(varint.data[i], 128) # 0

\* C20: on a 10-byte buffer whose bytes all have the continuation bit,
\* _decode_varint ends, and ends by raising the too-long error: it returns
\* no value and does not report a truncated varint.
C20_AllContinuationRaises ==
    /\ [](AllContinuation10 =>
             varint.pc # "returned" /\ varint.raises \in {"-", "Varint too long"})
    /\ (AllContinuation10 ~>
             (varint.pc = "raised" /\ varint.raises = "Varint too long"))

\* The too-long error has been raised on such a buffer, at its tenth byte.
C20_Witness ==
    /\ AllContinuation10
    /\ varint.pc = "raised"
    /\ varint.raises = "Varint too long"
    /\ varint.offset = 10

\* ------------------------------------------------------------------------
\* COHNManager._decode_protobuf_fields
\* ------------------------------------------------------------------------
\* Pieces a buffer is put together from, at most.
MaxFields == 3

\* The integer with the given base-128 digits (tags and lengths are small).
RECURSIVE IntOf(_)
IntOf(v) == IF v = << >> THEN 0 ELSE v[1] + 128 * IntOf(Tail(v))

\* _decode_varint(data, offset): the passes of its loop up to the return or
\* the raise.
RECURSIVE decode_run(_)
decode_run(st) == IF st.pc = "loop" THEN decode_run(decode_iteration(st)) ELSE st

decode_varint(data, offset) ==
    decode_run([IdleVarint EXCEPT !.pc = "loop", !.input = "data",
                                  !.data = data, !.offset = offset])

\* Well-formed fields of the four known wire types: field 1 twice (varint 5
\* and varint 300), field 2 (the bytes "ab"), field 3 (64-bit) and field 4
\* (32-bit).
KnownFields ==
    { [kind |-> "field", bytes |-> <<8, 5>>, number |-> 1,
       value |-> <<"int", <<5>> >>],
      [kind |-> "field", bytes |-> <<8, 172, 2>>, number |-> 1,
       value |-> <<"int", <<44, 2>> >>],
      [kind |-> "field", bytes |-> <<18, 2, 97, 98>>, number |-> 2,
       value |-> <<"bytes", <<97, 98>> >>],
      [kind |-> "field", bytes |-> <<25, 1, 2, 3, 4, 5, 6, 7, 8>>, number |-> 3,
       value |-> <<"bytes", <<1, 2, 3, 4, 5, 6, 7, 8>> >>],
      [kind |-> "field", bytes |-> <<37, 1, 2, 3, 4>>, number |-> 4,
       value |-> <<"bytes", <<1, 2, 3, 4>> >>] }

\* Tags of field 5 with the wire types 3, 4, 6 and 7.
UnknownWireTypes ==
    { [kind |-> "unknown", bytes |-> << 5 * 8 + wt >>, number |-> 5,
       value |-> <<"int", << >> >>] : wt \in {3, 4, 6, 7} }

\* Bytes that do not parse as a field: a lone continuation byte, and a
\* varint tag without its value.
Unparsable ==
    { [kind |-> "rest", bytes |-> <<255>>, number |-> 0,
       value |-> <<"int", << >> >>],
      [kind |-> "rest", bytes |-> <<8>>, number |-> 0,
       value |-> <<"int", << >> >>] }

ProtoItems == KnownFields \cup UnknownWireTypes \cup Unparsable

RECURSIVE Flatten(_)
Flatten(items) ==
    IF items = << >> THEN << >> ELSE Head(items).bytes \o Flatten(Tail(items))

\* A loop that goes on to the next tag after an unknown wire type.
decode_field_skips_unknown(st) ==
    IF st.offset >= Len(st.data) THEN [st EXCEPT !.pc = "returned"]
    ELSE
    LET t == decode_varint(st.data, st.offset)
        tag == IntOf(t.result)
        field_number == tag \div 8
        wire_type == tag % 8
        v == decode_varint(st.data, t.offset)
    IN  IF t.pc = "raised"
        THEN [st EXCEPT !.pc = "raised", !.raises = t.raises]
        ELSE IF wire_type \in {0, 2} /\ v.pc = "raised"
        THEN [st EXCEPT !.pc = "raised", !.raises = v.raises]
        ELSE IF wire_type = 0
        THEN [st EXCEPT !.fields = DictSet(@, field_number, <<"int", v.result>>),
                        !.offset = v.offset]
        ELSE IF wire_type = 2
        THEN [st EXCEPT !.fields = DictSet(@, field_number,
                               <<"bytes", Slice(st.data, v.offset,
                                                v.offset + IntOf(v.result))>>),
                        !.offset = v.offset + IntOf(v.result)]
        ELSE IF wire_type = 1
        THEN [st EXCEPT !.fields = DictSet(@, field_number,
                               <<"bytes", Slice(st.data, t.offset, t.offset + 8)>>),
                        !.offset = t.offset + 8]
        ELSE IF wire_type = 5
        THEN [st EXCEPT !.fields = DictSet(@, field_number,
                               <<"bytes", Slice(st.data, t.offset, t.offset + 4)>>),
                        !.offset = t.offset + 4]
        ELSE [st EXCEPT !.offset = t.offset]

\* One pass of the while loop of _decode_protobuf_fields, or the return
\* after it: t is the tag's varint, v the varint that follows it (the value
\* of wire type 0, the length of wire type 2).  A ValueError of
\* _decode_varint goes up to the caller.
decode_field(st) ==
    IF st.offset >= Len(st.data) THEN [st EXCEPT !.pc = "returned"]
    ELSE
    LET t == decode_varint(st.data, st.offset)
        tag == IntOf(t.result)
        field_number == tag \div 8
        wire_type == tag % 8
        v == decode_varint(st.data, t.offset)
    IN  IF t.pc = "raised"
        THEN [st EXCEPT !.pc = "raised", !.raises = t.raises]
        ELSE IF wire_type \in {0, 2} /\ v.pc = "raised"
        THEN [st EXCEPT !.pc = "raised", !.raises = v.raises]
        ELSE IF wire_type = 0
        THEN [st EXCEPT !.fields = DictSet(@, field_number, <<"int", v.result>>),
                        !.offset = v.offset]
        ELSE IF wire_type = 2
        THEN [st EXCEPT !.fields = DictSet(@, field_number,
                               <<"bytes", Slice(st.data, v.offset,
                                                v.offset + IntOf(v.result))>>),
                        !.offset = v.offset + IntOf(v.result)]
        ELSE IF wire_type = 1
        THEN [st EXCEPT !.fields = DictSet(@, field_number,
                               <<"bytes", Slice(st.data, t.offset, t.offset + 8)>>),
                        !.offset = t.offset + 8]
        ELSE IF wire_type = 5
        THEN [st EXCEPT !.fields = DictSet(@, field_number,
                               <<"bytes", Slice(st.data, t.offset, t.offset + 4)>>),
                        !.offset = t.offset + 4]
        ELSE [st EXCEPT !.pc = "returned", !.offset = t.offset]

\* The caller holds a buffer of up to MaxFields pieces.
InitProto ==
    /\ \E n \in 0 .. MaxFields : \E items \in [1 .. n -> ProtoItems] :
          proto = [IdleProto EXCEPT !.pc = "call", !.items = items,
                                    !.data = Flatten(items)]
    /\ varint = IdleVarint
    /\ sent = [len |-> 0, seed |-> 0, uuid |-> NoUUID]
    /\ wire = NoFrames
    /\ fed = 0
    /\ notification_data = EmptyDict
    /\ queues = EmptyDict
    /\ reassembly_buffers = EmptyDict
    /\ IdleProv
    /\ IdleCameras

\* self._decode_protobuf_fields(data) is called: fields = {}, offset = 0.
ProtoCall ==
    /\ proto.pc = "call"
    /\ proto' = [proto EXCEPT !.pc = "loop", !.fields = EmptyDict, !.offset = 0]
    /\ UNCHANGED <<sent, wire, fed, varint, cohnVars, provVars, camVars>>

ProtoIteration ==
    /\ proto.pc = "loop"
    /\ proto' = decode_field(proto)
    /\ UNCHANGED <<sent, wire, fed, varint, cohnVars, provVars, camVars>>

NextProto == ProtoCall \/ ProtoIteration

SpecProto == InitProto /\ [][NextProto]_vars

\* ------------------------------------------------------------------------
\* C21
\* ------------------------------------------------------------------------
\* The number of well-formed known fields the buffer starts with.
KnownPrefix ==
    CHOOSE k \in 0 .. Len(proto.items) :
        /\ \A i \in 1 .. k : proto.items[i].kind = "field"
        /\ k < Len(proto.items) => proto.items[k + 1].kind # "field"

\* The map of a sequence of fields: a later field replaces an earlier one
\* of the same number.
RECURSIVE Parsed(_)
Parsed(items) ==
    IF items = << >> THEN EmptyDict
    ELSE LET n == Len(items)
         IN  DictSet(Parsed(SubSeq(items, 1, n - 1)), items[n].number, items[n].value)

\* The buffer's well-formed fields are followed by a field of unknown wire
\* type.
UnknownAfterFields ==
    /\ KnownPrefix < Len(proto.items)
    /\ proto.items[KnownPrefix + 1].kind = "unknown"

\* C21: on a buffer whose well-formed fields are followed by a field of wire
\* type 3, 4, 6 or 7, _decode_protobuf_fields returns, without raising, the
\* map of the fields before it, whatever follows in the buffer.
C21_UnknownWireTypeStops ==
    (proto.pc \in {"returned", "raised"} /\ UnknownAfterFields) =>
        /\ proto.pc = "returned"
        /\ proto.fields = Parsed(SubSeq(proto.items, 1, KnownPrefix))

\* A field, an unknown wire type and bytes that would not parse: the call
\* returned the one field.
C21_Witness ==
    /\ proto.pc = "returned"
    /\ Len(proto.items) = 3
    /\ proto.items[1].kind = "field"
    /\ proto.items[2].kind = "unknown"
    /\ proto.items[3].kind = "rest"
    /\ DOMAIN proto.fields = {proto.items[1].number}
    /\ proto.fields[proto.items[1].number] = proto.items[1].value

\* ------------------------------------------------------------------------
\* C22
\* ------------------------------------------------------------------------
\* C22: for a payload of 0 .. 8190 bytes, once the frames of
\* _fragment_payload have been fed in order to the handler of a
\* characteristic that has a queue and no open buffer, the queue holds one
\* payload, the original, and no reassembly buffer is open.
C22_RoundTripBelow8191 ==
    (AllFed /\ sent.len <= 2^13 - 2) =>
        /\ queues[notification_data[sent.uuid]] = << payload >>
        /\ reassembly_buffers = EmptyDict

\* All frames of a payload of 8190 bytes, the longest with the 13-bit
\* header, went through the handler.
C22_Witness ==
    /\ AllFed
    /\ sent.len = 2^13 - 2
    /\ fed = Len(fragment_payload(payload))
    /\ fed > 2
    /\ queues[notification_data[sent.uuid]] = << payload >>

FirstFrames == { <<32, 3, 9>>, <<32, 1, 9, 9>>, <<96, 0, 2, 7>> }

NextFrames ==
    \/ \E u \in NotifyUUIDs : Notify(u)
    \/ \E u \in NotifyUUIDs, raw \in StrayFrames : StrayArrives(u, raw)
    \/ \E u \in NotifyUUIDs, raw \in FirstFrames : StrayArrives(u, raw)

SpecFrames == InitStray /\ [][NextFrames]_vars

\* ------------------------------------------------------------------------
\* C24
\* ------------------------------------------------------------------------
\* The handler of characteristic u is called with the next frame of its
\* wire in this step.
Notified(u) == wire[u] # << >> /\ wire' = [wire EXCEPT ![u] = Tail(@)]

\* C24: between notifications an open reassembly buffer holds fewer bytes
\* than its expected total; a buffer is opened (or opened anew) only by a
\* first-of-multi packet; and a continuation packet that brings the buffer
\* to the expected total removes the buffer and, on a characteristic with a
\* queue, puts one payload of the expected length on that queue alone.
C24_BufferBelowTotal ==
    /\ [](\A u \in DOMAIN reassembly_buffers :
             Len(reassembly_buffers[u].data) < reassembly_buffers[u].total_len)
    /\ [][\A u \in NotifyUUIDs : Notified(u) =>
            LET raw == Head(wire[u])
                bufs == reassembly_buffers
            IN  /\ (/\ u \in DOMAIN bufs'
                    /\ u \in DOMAIN bufs => bufs'[u].total_len # bufs[u].total_len)
                       => BitAnd(raw[1], 128) = 0 /\ BitAnd(raw[1], 32) # 0
                /\ (/\ u \in DOMAIN bufs
                    /\ BitAnd(raw[1], 128) # 0
                    /\ Len(bufs[u].data) + Len(raw) - 1 >= bufs[u].total_len)
                       => /\ u \notin DOMAIN bufs'
                          /\ \A q \in DOMAIN queues :
                                IF u \in DOMAIN notification_data
                                   /\ q = notification_data[u]
                                THEN /\ Len(queues'[q]) = Len(queues[q]) + 1
                                     /\ SubSeq(queues'[q], 1, Len(queues[q])) = queues[q]
                                     /\ Len(queues'[q][Len(queues'[q])]) = bufs[u].total_len
                                ELSE queues'[q] = queues[q]]_vars

\* A stray first-of-multi packet announcing 3 bytes and a stray continuation
\* with 2 bytes made one payload of 3 bytes; its buffer is gone.
C24_Witness ==
    /\ \E q \in DOMAIN queues : queues[q] = << <<9, 1, 2>> >>
    /\ reassembly_buffers = EmptyDict

\* ------------------------------------------------------------------------
\* One message on each characteristic, their frames interleaved
\* ------------------------------------------------------------------------
\* The message sent on characteristic u: the three differ in length and in
\* their bytes.
MessageOn(u) ==
    LET k == IF u = CQ_COMMAND_RESP THEN 0 ELSE IF u = CQ_QUERY_RESP THEN 1 ELSE 2
    IN  MakePayload(sent.len + k, sent.seed + k)

\* Lengths around the one-packet and the two-packet limits.
InterleavedLens == {17, 18, 36, 37}

\* Every characteristic has its queue and its message's frames wait on its
\* wire; the BLE stack may notify them in any interleaving that keeps each
\* characteristic's order.
InitInterleaved ==
    /\ \E len \in InterleavedLens, seed \in Seeds :
          /\ sent = [len |-> len, seed |-> seed, uuid |-> NoUUID]
          /\ wire = [u \in NotifyUUIDs |-> fragment_payload(MessageOn(u))]
    /\ notification_data = [u \in NotifyUUIDs |-> NewQueue(0, u)]
    /\ queues = [q \in {NewQueue(0, u) : u \in NotifyUUIDs} |-> << >>]
    /\ reassembly_buffers = EmptyDict
    /\ fed = 0
    /\ varint = IdleVarint
    /\ proto = IdleProto
    /\ IdleProv
    /\ IdleCameras

SpecInterleaved == InitInterleaved /\ [][NextCodec]_vars

\* ------------------------------------------------------------------------
\* C25
\* ------------------------------------------------------------------------
\* C25: with the frames of the three messages arriving interleaved, each
\* characteristic's queue only ever receives the message sent on that
\* characteristic, whole, and holds it once all its frames have arrived.
C25_IndependentReassembly ==
    \A u \in NotifyUUIDs :
        LET q == queues[notification_data[u]]
        IN  /\ q \in { << >>, << MessageOn(u) >> }
            /\ wire[u] = << >> => q = << MessageOn(u) >>
            /\ q # << >> => wire[u] = << >>

\* Two characteristics are in the middle of their messages while the third
\* has delivered its own.
C25_Witness ==
    /\ queues[notification_data[CQ_QUERY_RESP]] = << MessageOn(CQ_QUERY_RESP) >>
    /\ sent.len = 36
    /\ DOMAIN reassembly_buffers = {CQ_COMMAND_RESP, CM_NET_MGMT_RESP}
    /\ Len(wire[CQ_COMMAND_RESP]) = 1
    /\ Len(wire[CM_NET_MGMT_RESP]) = 2

\* ------------------------------------------------------------------------
\* C26
\* ------------------------------------------------------------------------
\* The positions where a run waits in the queue.get() of _write_and_wait.
ExchangePos == {"x5", "x6", "x7", "x8", "x9", "x10", "x11", "x12", "x13"}

\* Run t calls _write_and_wait in this step, and returns from it.
Calls(t) == task[t].pc \notin ExchangePos /\ task'[t].pc \in ExchangePos
Leaves(t) == task[t].pc \in ExchangePos /\ task'[t].pc # task[t].pc

\* C26: a payload that is in the queue when _write_and_wait is called is
\* never its response: the call leaves the queue empty when the command is
\* written, and it ends either with the first payload of the queue, which
\* was therefore enqueued after the drain, or, the queue being empty, without
\* a response.
C26_StaleNeverReturned ==
    [][\A t \in Tasks :
         /\ Calls(t) => queues'[task'[t].wait_q] = << >>
         /\ Leaves(t) =>
               \/ /\ HasResponse(t)
                  /\ task'[t].pc \in InnerPos \ {"hdisc"} =>
                        task'[t].resp = Head(queues[task[t].wait_q])
               \/ /\ task'[t].resp = << >>
                  /\ task'[t].wait_q = NoQueue]_vars

\* A run waits for the response of a command whose call found payloads in
\* its queue and dropped them.
C26_Witness ==
    \E t \in Tasks :
       /\ task[t].pc \in ExchangePos
       /\ task[t].drained > 0
       /\ queues[task[t].wait_q] = << >>

\* ------------------------------------------------------------------------
\* C27
\* ------------------------------------------------------------------------
\* A run for serial s is between its first report and its end.
Running(s) == \E u \in Tasks : task[u].serial = s /\ task[u].pc \in InnerPos

\* provision_camera is called for serial s as request t in this step.
Requests(t, s) == task[t].pc = "idle" /\ task'[t].pc # "idle" /\ task'[t].serial = s

\* C27: the lock of a serial is held only while a run for it is in flight,
\* however the runs before ended, and a request for a serial that has no
\* run in flight is accepted: it takes the lock and reports step 1.
C27_LockFreeAfterRun ==
    /\ [](\A s \in Serials : lock_locked(s) => Running(s))
    /\ [][\A t \in Tasks, s \in Serials :
            (Requests(t, s) /\ ~Running(s)) =>
               /\ task'[t].pc = "r1"
               /\ task'[t].result = "none"
               /\ lock_locked(s)']_vars

\* The first run for S1 ended when its deadline expired, and the second
\* request for S1 was accepted.
C27_Witness ==
    /\ task[1].pc = "done" /\ task[1].serial = "S1" /\ task[1].result = "timed_out"
    /\ task[2].pc = "r1" /\ task[2].serial = "S1"
    /\ lock_locked("S1")

\* ------------------------------------------------------------------------
\* C28
\* ------------------------------------------------------------------------
\* total_steps of _provision_camera_inner, the total of every report call.
total_steps == 15

\* The progress events of run t: report(n, total_steps, msg) passes the step
\* and the total to the progress callback.
Events(t) ==
    [i \in 1 .. Len(task[t].progress) |->
        [step |-> task[t].progress[i], total |-> total_steps]]

\* C28: the i-th progress event of a run carries step i and total 15 (so the
\* steps start at 1, increase by 1, and none is repeated or out of order),
\* and a run that returned success has emitted the fifteen events.
C28_ProgressInOrder ==
    \A t \in Tasks :
       /\ \A i \in 1 .. Len(Events(t)) :
             Events(t)[i].step = i /\ Events(t)[i].total = 15
       /\ Len(Events(t)) <= 15
       /\ task[t].result = "success" => Len(Events(t)) = 15

\* A run returned success after its fifteen events.
C28_Witness ==
    \E t \in Tasks :
       /\ task[t].pc = "done" /\ task[t].result = "success"
       /\ [i \in 1 .. Len(Events(t)) |-> Events(t)[i].step] =
             << 1, 2, 3, 4, 5, 6, 7, 8, 9, 10, 11, 12, 13, 14, 15 >>

\* ------------------------------------------------------------------------
\* C29
\* ------------------------------------------------------------------------
\* Run t executes the code of step 3 up to its first start_notify.
SetsUp(t) == task[t].pc = "r3" /\ task'[t].pc = "subscribe"

\* Run t writes to the camera in this step: the clock of step 4, or the
\* command of an exchange.
Writes(t) == (task[t].pc = "r4" /\ task'[t].pc = "clock") \/ Calls(t)

\* C29: step 3 leaves a queue for each of the three characteristics, all
\* empty, and no reassembly buffer for any of them; a run writes to the
\* camera only with its handlers registered and step 3 behind it (the
\* event of step 4 has been emitted).
C29_SetupBeforeFirstWrite ==
    [][\A t \in Tasks :
         /\ SetsUp(t) =>
               \A u \in NotifyUUIDs :
                  /\ u \in DOMAIN notification_data'
                  /\ queues'[notification_data'[u]] = << >>
                  /\ u \notin DOMAIN reassembly_buffers'
         /\ Writes(t) =>
               /\ task[t].subscribed
               /\ Len(task[t].progress) >= 4]_vars

\* The second run has made its first write; its step 3 dropped the buffer
\* that the first packet of a message of the first run's camera had opened
\* (the second packet of that message is still to come).
C29_Witness ==
    /\ task[2].pc = "clock" /\ task[2].subscribed
    /\ cam[1].tx # << >> /\ Head(cam[1].tx)[1] = CQ_QUERY_RESP
    /\ CQ_QUERY_RESP \notin DOMAIN reassembly_buffers
    /\ \A u \in NotifyUUIDs : queues[notification_data[u]] = << >>

\* ------------------------------------------------------------------------
\* C30
\* ------------------------------------------------------------------------
\* The exchange of step 10 of run t ends in this step without a response,
\* and not because the deadline of the run expired.
CreateCertFails(t) ==
    /\ task[t].pc = "x10"
    /\ task'[t].pc \notin {"x10", "sl10"}
    /\ ~task'[t].deadline_fired

\* Run t leaves the exception handler that it entered from step 10.
HandlerLeavesAfter10(t) ==
    /\ task[t].pc = "hdisc" /\ task'[t].pc # "hdisc"
    /\ task[t].progress[Len(task[t].progress)] = 10

\* C30: when the CreateCert exchange of step 10 fails, the run goes to its
\* exception handler, which only disconnects, and provision_camera raises
\* to its caller: no event of steps 11 to 15 is emitted and the credential
\* store does not change.
C30_CreateCertFatal ==
    [][\A t \in Tasks :
         /\ CreateCertFails(t) =>
               /\ task'[t].pc \in {"hdisc", "done"}
               /\ task'[t].pc = "hdisc" => task'[t].exc \in {"TimeoutError", "Exception"}
               /\ task'[t].pc = "done" => task'[t].result \in {"error", "timed_out"}
               /\ task'[t].progress = task[t].progress
               /\ credentials' = credentials
         /\ HandlerLeavesAfter10(t) =>
               /\ task'[t].pc = "done"
               /\ task'[t].result \in {"error", "timed_out"}
               /\ task'[t].progress = task[t].progress
               /\ credentials' = credentials]_vars

\* A run for a serial without a record ended with the exception of step
\* 10, and the serial still has no record.
C30_Witness ==
    \E t \in Tasks :
       /\ task[t].pc = "done" /\ task[t].result \in {"error", "timed_out"}
       /\ ~task[t].deadline_fired
       /\ task[t].progress = << 1, 2, 3, 4, 5, 6, 7, 8, 9, 10 >>
       /\ task[t].cred_before = NoRecord
       /\ get_credentials(credentials, task[t].serial) = NoRecord

\* ------------------------------------------------------------------------
\* C31
\* ------------------------------------------------------------------------
\* The clock write of step 4, or the ClearCert exchange of step 9, of run t
\* fails in this step (a write exception or a response timeout).
BestEffortFails(t, n) ==
    /\ n \notin task[t].warned
    /\ n \in task'[t].warned

\* C31: a failure of step 4 or of step 9 is logged and the run enters the
\* next step at once: it emits the event of step 5, or of step 10, and is
\* not over.
C31_BestEffortSteps ==
    [][\A t \in Tasks, n \in {4, 9} :
         /\ BestEffortFails(t, n) =>
               /\ task[t].pc = (IF n = 4 THEN "clock" ELSE "x9")
               /\ task'[t].pc = ReportPos[n + 1]
               /\ task'[t].progress = Append(task[t].progress, n + 1)
         /\ (task[t].pc \in {"clock", "x9"} /\ task'[t].pc \in {"hdisc", "done"}) =>
               task'[t].deadline_fired]_vars

\* A run whose clock write and whose ClearCert exchange both failed has
\* stored its credential record and emitted the event of step 15.
C31_Witness ==
    \E t \in Tasks :
       /\ task[t].warned = {4, 9}
       /\ task[t].pc = "r15"

\* ------------------------------------------------------------------------
\* Step 7 with the notifications parsed: one run at its step 7, and a
\* camera that sends provisioning notifications of every kind
\* ------------------------------------------------------------------------
\* The camera has at most this many notifications waiting in the queue.
MaxQueued == 2

\* _decode_protobuf_fields(data): the passes of its loop up to the return or
\* the ValueError of a varint.
RECURSIVE proto_run(_)
proto_run(st) == IF st.pc = "loop" THEN proto_run(decode_field(st)) ELSE st

decode_protobuf_fields(data) ==
    proto_run([IdleProto EXCEPT !.pc = "loop", !.data = data])

\* A variant of the loop body of step 7 without the elif of line 634: the
\* aborted and error states do not leave the loop.
step7_turn_ignores_failure(notif) ==
    IF Len(notif) >= 2 /\ notif[1] = 2 /\ notif[2] = 12
    THEN LET d == decode_protobuf_fields(Slice(notif, 2, Len(notif)))
             is_int == 1 \in DOMAIN d.fields /\ d.fields[1][1] = "int"
         IN  IF d.pc = "raised" THEN "raised"
             ELSE IF is_int /\ IntOf(d.fields[1][2]) \in {5, 6} THEN "success"
             ELSE "continue"
    ELSE "continue"

\* One turn of `for _ in range(20)` on the notification notif (lines
\* 623-636): a NotifProvisioningState (feature 0x02, action 0x0C) whose
\* field 1 is 5 or 6 breaks with success, 2, 3 or 4 breaks with failure,
\* anything else goes on; a ValueError of the decoder leaves the try.
step7_turn(notif) ==
    IF Len(notif) >= 2 /\ notif[1] = 2 /\ notif[2] = 12
    THEN LET d == decode_protobuf_fields(Slice(notif, 2, Len(notif)))
             is_int == 1 \in DOMAIN d.fields /\ d.fields[1][1] = "int"
         IN  IF d.pc = "raised" THEN "raised"
             ELSE IF is_int /\ IntOf(d.fields[1][2]) \in {5, 6} THEN "success"
             ELSE IF is_int /\ IntOf(d.fields[1][2]) \in {2, 3, 4} THEN "failed"
             ELSE "continue"
    ELSE "continue"

\* What the camera notifies: the provisioning states 0 to 6, a
\* NotifProvisioningState without fields, another action, a state sent as
\* bytes, and a state whose varint is cut.
ProvNotifs ==
    { <<2, 12, 8, state>> : state \in 0 .. 6 } \cup
    { <<2, 12>>, <<2, 11, 8, 5>>, <<2, 12, 10, 1, 5>>, <<2, 12, 8, 128>> }

\* Run 1, for S1, has emitted the event of step 7: it is connected, its
\* handlers are registered and its three queues are empty.
InitWifi ==
    /\ notification_data = [u \in NotifyUUIDs |-> NewQueue(1, u)]
    /\ queues = [q \in {NewQueue(1, u) : u \in NotifyUUIDs} |-> << >>]
    /\ reassembly_buffers = EmptyDict
    /\ provisioning_locks = DictSet(EmptyDict, "S1", TRUE)
    /\ credentials = EmptyDict
    /\ wifi = WifiArgs(1)
    /\ task = [t \in Tasks |->
                 IF t = 1
                 THEN [IdleTask EXCEPT !.pc = "r7", !.serial = "S1",
                                       !.client = "connected", !.subscribed = TRUE,
                                       !.progress = << 1, 2, 3, 4, 5, 6, 7 >>]
                 ELSE IdleTask]
    /\ cam = [t \in Tasks |-> IdleCam]
    /\ IdleCodec
    /\ IdleCameras

\* The turn of the loop that gets the notification at the head of the
\* queue; last is the twentieth turn.
Step7Parsed(t) ==
    /\ task[t].pc = "p7"
    /\ HasResponse(t)
    /\ \E last \in BOOLEAN :
          Commit(t, IF last \/ step7_turn(Head(queues[task[t].wait_q])) # "continue"
                    THEN report(got(World(t)), 8)
                    ELSE wait_for_notification(got(World(t)), t,
                                               CM_NET_MGMT_RESP, "p7"))

\* The camera notifies notif on the network management characteristic.
CameraNotifies(t, notif) ==
    /\ task[t].subscribed
    /\ task[t].pc \in {"x7", "p7"}
    /\ cam[t].tx = << >>
    /\ Len(queues[notification_data[CM_NET_MGMT_RESP]]) < MaxQueued
    /\ HandlerCall(CM_NET_MGMT_RESP, Head(fragment_payload(notif)))
    /\ UNCHANGED <<provisioning_locks, credentials, wifi, task, cam>>

NextWifi ==
    \/ \E t \in Tasks : Step7(t) /\ UNCHANGED <<codecVars, camVars>>
    \/ \E t \in Tasks : Step7Response(t) /\ UNCHANGED <<codecVars, camVars>>
    \/ \E t \in Tasks : Step7Failed(t) /\ UNCHANGED <<codecVars, camVars>>
    \/ \E t \in Tasks : Step7Parsed(t) /\ UNCHANGED <<codecVars, camVars>>
    \/ \E t \in Tasks : Step7Timeout(t) /\ UNCHANGED <<codecVars, camVars>>
    \/ \E t \in Tasks : CameraRespond(t) /\ UNCHANGED <<codecVars, camVars>>
    \/ \E t \in Tasks, notif \in ProvNotifs :
          CameraNotifies(t, notif) /\ UNCHANGED <<codecVars, camVars>>

SpecWifi == InitWifi /\ [][NextWifi]_vars

\* ------------------------------------------------------------------------
\* C32
\* ------------------------------------------------------------------------
\* Run t takes the notification at the head of its queue in this step.
Takes(t) ==
    /\ HasResponse(t)
    /\ queues'[task[t].wait_q] = Tail(queues[task[t].wait_q])

\* C32: in step 7 a provisioning notification with state 2, 3, 4, 5 or 6
\* ends the wait in the turn that gets it, and the run emits the event of
\* step 8; so does the run whose connect command gets no response; the run
\* leaves step 7 only for step 8.
C32_WifiStatesEndWait ==
    [][\A t \in Tasks :
         /\ (task[t].pc = "p7" /\ Takes(t)
                /\ Head(queues[task[t].wait_q]) \in
                      { <<2, 12, 8, state>> : state \in 2 .. 6 }) =>
               /\ task'[t].pc = "r8"
               /\ task'[t].progress = Append(task[t].progress, 8)
         /\ (task[t].pc = "x7" /\ task'[t] # task[t] /\ ~HasResponse(t)) =>
               /\ task'[t].pc = "r8"
               /\ task'[t].progress = Append(task[t].progress, 8)
         /\ (task[t].pc \in {"x7", "p7"} /\ task'[t].pc # task[t].pc) =>
               task'[t].pc \in {"p7", "r8"}]_vars

\* The wait of step 7 ended with the notification of the error state 4
\* while another notification was still in the queue.
C32_Witness ==
    \E t \in Tasks :
       /\ task[t].pc = "r8"
       /\ task[t].resp = <<2, 12, 8, 4>>
       /\ queues[notification_data[CM_NET_MGMT_RESP]] # << >>

\* ------------------------------------------------------------------------
\* C33
\* ------------------------------------------------------------------------
\* The status response of step 12 of run t is processed in this step.
Step12Decides(t) ==
    /\ task[t].pc = "x12" /\ HasResponse(t)
    /\ task'[t].pc # "x12" /\ ~task'[t].deadline_fired

\* Run t stores its credential record in this step.
Stores(t) == task[t].pc = "r14" /\ task'[t].pc = "r15"

FireShutterRaw(s, is_start, write) ==
    /\ LoopFree
    /\ s \in DOMAIN cameras
    /\ LET r == fire_shutter_raw(cameras[s], is_start, write)
       IN  /\ cameras' = [cameras EXCEPT ![s] = r.c]
           /\ returned' = [op |-> "_fire_shutter_raw", serial |-> s, ret |-> r.ret,
                           is_start |-> is_start, wrote |-> r.wrote]
    /\ UNCHANGED <<removals, ble_busy, batch, monitor, poll_threads>>

NextShutter ==
    \/ \E s \in Serials : add_camera(s) /\ UNCHANGED <<cohnVars, provVars, codecVars>>
    \/ \E s \in Serials : connect_ble(s) /\ UNCHANGED <<cohnVars, provVars, codecVars>>
    \/ \E s \in Serials, b \in {"connected", "raises"} :
          OpenDone(s, b) /\ UNCHANGED <<cohnVars, provVars, codecVars>>
    \/ \E s \in Serials : OpenFailed(s) /\ UNCHANGED <<cohnVars, provVars, codecVars>>
    \/ \E s \in Serials : LinkLost(s) /\ UNCHANGED <<cohnVars, provVars, codecVars>>
    \/ \E s \in Serials, is_start \in BOOLEAN, write \in {"ok", "raises"} :
          FireShutterRaw(s, is_start, write) /\ UNCHANGED <<cohnVars, provVars, codecVars>>

SpecShutter == InitCam /\ [][NextShutter]_vars

\* ------------------------------------------------------------------------
\* C34
\* ------------------------------------------------------------------------
\* _fire_shutter_raw finds the camera not connected.
NotConnected(c) == ~c.connected \/ c.gopro = "None" \/ ~is_ble_connected(c)

\* C34: a _fire_shutter_raw call on a camera that is not connected makes no
\* BLE write, returns False and leaves the camera as it was; a call whose
\* write raises returns False and leaves the camera as it was; a call
\* returns True only after a write, and then recording is the requested
\* state and nothing else has changed.
C34_ShutterEffect ==
    [][(returned' # returned /\ returned'.op = "_fire_shutter_raw") =>
          LET s == returned'.serial
          IN  /\ NotConnected(cameras[s]) => ~returned'.wrote /\ ~returned'.ret
              /\ ~returned'.ret => cameras' = cameras
              /\ returned'.ret =>
                    /\ returned'.wrote
                    /\ cameras' = [cameras EXCEPT ![s].recording = returned'.is_start]]_vars

\* A stop whose write raised has returned False on a camera that is still
\* marked recording.
C34_Witness ==
    /\ returned.op = "_fire_shutter_raw"
    /\ ~returned.is_start /\ returned.wrote /\ ~returned.ret
    /\ cameras[returned.serial].recording

\* ------------------------------------------------------------------------
\* The monitor with ble_busy as an input: nothing in the repository assigns
\* the flag after the constructor, so the assignment comes from outside
\* ------------------------------------------------------------------------
\* camera_manager.ble_busy = b
SetBusy(b) ==
    /\ LoopFree
    /\ ble_busy # b
    /\ ble_busy' = b
    /\ UNCHANGED <<removals, cameras, batch, monitor, poll_threads, returned>>

NextBusy ==
    \/ \E s \in Serials : add_camera(s) /\ UNCHANGED <<cohnVars, provVars, codecVars>>
    \/ \E s \in Serials : connect_ble(s) /\ UNCHANGED <<cohnVars, provVars, codecVars>>
    \/ \E s \in Serials, b \in {"connected", "raises"} :
          OpenDone(s, b) /\ UNCHANGED <<cohnVars, provVars, codecVars>>
    \/ \E s \in Serials : OpenFailed(s) /\ UNCHANGED <<cohnVars, provVars, codecVars>>
    \/ \E s \in Serials : LinkLost(s) /\ UNCHANGED <<cohnVars, provVars, codecVars>>
    \/ \E b \in BOOLEAN : SetBusy(b) /\ UNCHANGED <<cohnVars, provVars, codecVars>>
    \/ MonitorWake /\ UNCHANGED <<cohnVars, provVars, codecVars>>
    \/ MonitorIteration /\ UNCHANGED <<cohnVars, provVars, codecVars>>
    \/ MonitorResume /\ UNCHANGED <<cohnVars, provVars, codecVars>>
    \/ \E th \in poll_threads :
          PollThreadEnds(th) /\ UNCHANGED <<cohnVars, provVars, codecVars>>
    \/ \E th \in poll_threads :
          PollJoinTimeout(th) /\ UNCHANGED <<cohnVars, provVars, codecVars>>

SpecBusy == InitCam /\ [][NextBusy]_vars

\* ------------------------------------------------------------------------
\* C35
\* ------------------------------------------------------------------------
\* The monitor runs the head of an iteration in this step.
Iterates == monitor.pc = "refresh" /\ monitor'.pc # "refresh"

\* C35: an iteration of connection_monitor that finds ble_busy set starts no
\* status read, leaves the two poll counters as they were and goes to its
\* sleep; it still refreshes the connection status of every camera and
\* remembers it.
C35_BusySkipsPolls ==
    [][(Iterates /\ ble_busy) =>
          /\ poll_threads' = poll_threads
          /\ monitor'.battery_poll_counter = monitor.battery_poll_counter
          /\ monitor'.health_poll_counter = monitor.health_poll_counter
          /\ monitor'.pc = "sleep"
          /\ cameras' = [s \in DOMAIN cameras |->
                            update_connection_status(cameras[s]).c]
          /\ monitor'.previous_states =
                [s \in DOMAIN cameras |-> update_connection_status(cameras[s]).ret]]_vars

\* The last iteration found ble_busy set while a battery poll was due, with
\* a camera connected, and it marked a camera whose link was lost as
\* disconnected.
C35_Witness ==
    /\ monitor.skipped /\ monitor.pc = "sleep"
    /\ monitor.battery_poll_counter = BatteryPollIterations - 1
    /\ \E s \in DOMAIN cameras : cameras[s].connected
    /\ \E s \in DOMAIN cameras :
          /\ cameras[s].gopro = "GoPro" /\ ~cameras[s].handle
          /\ cameras[s].call = "-"
          /\ ~cameras[s].connected
    /\ poll_threads = {}

\* ------------------------------------------------------------------------
\* camera_manager.py: get_battery_level and get_health_status, called by
\* the endpoints, and the battery history they keep
\* ------------------------------------------------------------------------
\* The number of entries kept (lines 401-402 and 466-467).
HistoryLimit == 60
\* Readings a camera gives before the model stops it.
MaxReadings == 62
Levels == {79, 80}
HistorySerials == {"S1"}

\* seq[-n:]
LastN(seq, n) ==
    IF Len(seq) <= n THEN seq ELSE SubSeq(seq, Len(seq) - n + 1, Len(seq))

\* get_battery_level after its status read gave a level (lines 396-403).
get_battery_level(c, level) ==
    LET appended == Append(c.battery_history, c.readings + 1)
    IN  [c EXCEPT !.battery_level = level,
                  !.readings = @ + 1,
                  !.battery_history =
                      IF Len(appended) > HistoryLimit
                      THEN LastN(appended, HistoryLimit) ELSE appended]

\* A variant of get_health_status that appends without trimming.
get_health_status_untrimmed(c, battery) ==
    [c EXCEPT !.battery_level = battery,
              !.readings = @ + 1,
              !.battery_history = Append(c.battery_history, c.readings + 1)]

\* get_health_status after _safe_status("int_batt_per") gave a value
\* (lines 462-467).
get_health_status(c, battery) ==
    LET appended == Append(c.battery_history, c.readings + 1)
    IN  [c EXCEPT !.battery_level = battery,
                  !.readings = @ + 1,
                  !.battery_history =
                      IF Len(appended) > HistoryLimit
                      THEN LastN(appended, HistoryLimit) ELSE appended]

\* Either method is called on a camera: it refreshes the connection status
\* and returns at once unless the camera is connected; otherwise its status
\* read starts and the call awaits it.
ReadBegins(s, kind) ==
    /\ LoopFree
    /\ s \in DOMAIN cameras
    /\ PollThread(s, kind) \notin poll_threads
    /\ LET u == update_connection_status(cameras[s])
       IN  /\ cameras' = [cameras EXCEPT ![s] = u.c]
           /\ poll_threads' =
                 IF ~u.c.connected \/ u.c.gopro = "None" \/ ~is_ble_connected(u.c)
                 THEN poll_threads
                 ELSE poll_threads \cup {PollThread(s, kind)}
    /\ UNCHANGED <<removals, ble_busy, batch, monitor, returned>>

\* The status read ends and the call resumes: with a level it records the
\* sample; with None, an error or a timeout it records nothing.
ReadEnds(th, level) ==
    /\ LoopFree
    /\ th \in poll_threads
    /\ level \in Levels => cameras[th.serial].readings < MaxReadings
    /\ poll_threads' = poll_threads \ {th}
    /\ cameras' =
          IF level \notin Levels THEN cameras
          ELSE IF th.kind = "battery"
               THEN [cameras EXCEPT ![th.serial] = get_battery_level(@, level)]
               ELSE [cameras EXCEPT ![th.serial] = get_health_status(@, level)]
    /\ UNCHANGED <<removals, ble_busy, batch, monitor, returned>>

NextHistory ==
    \/ \E s \in HistorySerials : add_camera(s) /\ UNCHANGED <<cohnVars, provVars, codecVars>>
    \/ \E s \in HistorySerials : connect_ble(s) /\ UNCHANGED <<cohnVars, provVars, codecVars>>
    \/ \E s \in HistorySerials, b \in {"connected", "raises"} :
          OpenDone(s, b) /\ UNCHANGED <<cohnVars, provVars, codecVars>>
    \/ \E s \in HistorySerials : OpenFailed(s) /\ UNCHANGED <<cohnVars, provVars, codecVars>>
    \/ \E s \in HistorySerials : LinkLost(s) /\ UNCHANGED <<cohnVars, provVars, codecVars>>
    \/ \E s \in HistorySerials, kind \in {"battery", "health"} :
          ReadBegins(s, kind) /\ UNCHANGED <<cohnVars, provVars, codecVars>>
    \/ \E th \in poll_threads, level \in Levels \cup {NoLevel} :
          ReadEnds(th, level) /\ UNCHANGED <<cohnVars, provVars, codecVars>>

SpecHistory == InitCam /\ [][NextHistory]_vars

\* ------------------------------------------------------------------------
\* C36
\* ------------------------------------------------------------------------
\* C36: battery_history never holds more than 60 samples, and what it holds
\* is the most recent readings in the order they arrived: nothing is dropped
\* before the limit, and from then on the oldest goes first.
C36_HistoryKeepsLast60 ==
    \A s \in DOMAIN cameras :
        LET h == cameras[s].battery_history
            n == cameras[s].readings
            kept == IF n > HistoryLimit THEN HistoryLimit ELSE n
        IN  /\ Len(h) <= HistoryLimit
            /\ Len(h) = kept
            /\ \A i \in 1 .. kept : h[i] = n - kept + i

\* More readings than the limit have arrived and the first ones are gone.
C36_Witness ==
    \E s \in DOMAIN cameras :
        /\ cameras[s].readings > HistoryLimit + 1
        /\ Len(cameras[s].battery_history) = HistoryLimit
        /\ cameras[s].battery_history[1] > 2

\* ------------------------------------------------------------------------
\* camera_manager.py: disconnect await by await, with connect_ble, the
\* shutter and update_connection_status called around it
\* ------------------------------------------------------------------------
\* update_connection_status is called on camera s (by the monitor's refresh,
\* or by to_dict for a listing).
UpdateConnectionStatus(s) ==
    /\ LoopFree
    /\ s \in DOMAIN cameras
    /\ LET u == update_connection_status(cameras[s])
       IN  /\ cameras' = [cameras EXCEPT ![s] = u.c]
           /\ returned' = Returned("update_connection_status", s, u.ret)
    /\ UNCHANGED <<removals, ble_busy, batch, monitor, poll_threads>>

\* disconnect is called on a camera no call is working on: without a handle
\* object it returns at once, leaving every field; with one it hands the
\* handle's close() to the executor.  disconnect returns nothing: ret says
\* whether close() was called.
DisconnectCall(s) ==
    /\ LoopFree
    /\ s \in DOMAIN cameras
    /\ cameras[s].call = "-"
    /\ IF cameras[s].gopro = "GoPro"
       THEN /\ cameras' = [cameras EXCEPT ![s].call = "disconnect"]
            /\ UNCHANGED returned
       ELSE /\ returned' = Returned("disconnect", s, FALSE)
            /\ UNCHANGED cameras
    /\ UNCHANGED <<removals, ble_busy, batch, monitor, poll_threads>>

\* close() at work in the executor's thread: the link is torn down and the
\* handle dropped, while the event loop runs whatever is ready.
CloseInThread(s) ==
    /\ s \in DOMAIN cameras
    /\ cameras[s].call = "disconnect"
    /\ cameras[s].handle
    /\ cameras' = [cameras EXCEPT ![s] = [@ EXCEPT !.handle = FALSE,
                                                   !.bleak = "disconnected"]]
    /\ UNCHANGED <<removals, ble_busy, batch, monitor, poll_threads, returned>>

\* close() returned or raised (with the handle kept): disconnect resumes
\* and clears connected and recording.
DisconnectResumes(s) ==
    /\ LoopFree
    /\ s \in DOMAIN cameras
    /\ cameras[s].call = "disconnect"
    /\ cameras' = [cameras EXCEPT ![s] = [@ EXCEPT !.connected = FALSE,
                                                   !.recording = FALSE,
                                                   !.call = "-"]]
    /\ returned' = Returned("disconnect", s, TRUE)
    /\ UNCHANGED <<removals, ble_busy, batch, monitor, poll_threads>>

NextRecording ==
    \/ \E s \in Serials : add_camera(s) /\ UNCHANGED <<cohnVars, provVars, codecVars>>
    \/ \E s \in Serials : ConnectCall(s) /\ UNCHANGED <<cohnVars, provVars, codecVars>>
    \/ \E s \in Serials, b \in {"connected", "raises"} :
          OpenReturns(s, b) /\ UNCHANGED <<cohnVars, provVars, codecVars>>
    \/ \E s \in Serials : WifiSleepOver(s) /\ UNCHANGED <<cohnVars, provVars, codecVars>>
    \/ \E s \in Serials : OpenFails(s) /\ UNCHANGED <<cohnVars, provVars, codecVars>>
    \/ \E s \in Serials : CloseReturns(s) /\ UNCHANGED <<cohnVars, provVars, codecVars>>
    \/ \E s \in Serials : BackoffOver(s) /\ UNCHANGED <<cohnVars, provVars, codecVars>>
    \/ \E s \in Serials : LinkLost(s) /\ UNCHANGED <<cohnVars, provVars, codecVars>>
    \/ \E s \in Serials, is_start \in BOOLEAN, write \in {"ok", "raises"} :
          FireShutterRaw(s, is_start, write) /\ UNCHANGED <<cohnVars, provVars, codecVars>>
    \/ \E s \in Serials :
          UpdateConnectionStatus(s) /\ UNCHANGED <<cohnVars, provVars, codecVars>>
    \/ \E s \in Serials : DisconnectCall(s) /\ UNCHANGED <<cohnVars, provVars, codecVars>>
    \/ \E s \in Serials : CloseInThread(s) /\ UNCHANGED <<cohnVars, provVars, codecVars>>
    \/ \E s \in Serials :
          DisconnectResumes(s) /\ UNCHANGED <<cohnVars, provVars, codecVars>>

SpecRecording == InitCam /\ [][NextRecording]_vars

\* ------------------------------------------------------------------------
\* C37
\* ------------------------------------------------------------------------
\* C37: when update_connection_status, disconnect or connect_ble has just
\* returned for a camera, the camera is marked recording only if it is
\* marked connected.
C37_RecordingOnlyWhileConnected ==
    (/\ returned.op \in {"update_connection_status", "disconnect", "connect_ble"}
     /\ returned.serial \in DOMAIN cameras)
        => (cameras[returned.serial].recording
                => cameras[returned.serial].connected)

\* ------------------------------------------------------------------------
\* C38
\* ------------------------------------------------------------------------
\* The inner run of t ends here by raising (not by its deadline).
Raises(t) ==
    /\ task[t].pc \in InnerPos
    /\ task'[t].pc = "done"
    /\ task'[t].result \in {"error", "timed_out"}
    /\ ~task'[t].deadline_fired

\* C38: a run that ends by raising, whatever raised, leaves the credential
\* record of its serial as it was when the run began.
C38_RaisingRunStoresNothing ==
    [][\A t \in Tasks :
          Raises(t) =>
              get_credentials(credentials', task[t].serial) = task[t].cred_before]_vars

\* ------------------------------------------------------------------------
\* C39
\* ------------------------------------------------------------------------
\* The run of t ends here without success.
Fails(t) ==
    /\ task[t].pc \in InnerPos
    /\ task'[t].pc = "done"
    /\ task'[t].result # "success"

\* C39: when a run fails, the manager's wifi_ssid and wifi_password, which
\* the next save writes to the credentials file, are what they were when the
\* run began.
C39_FailedRunKeepsWifi ==
    [][\A t \in Tasks : Fails(t) => wifi' = task[t].wifi_before]_vars

\* ------------------------------------------------------------------------
\* camera_manager.py: CameraManager.remove_camera
\* ------------------------------------------------------------------------
\* The requests suspended in the disconnect of camera s.
Removing(s) == {j \in Removers : removals[j].pc = "close" /\ removals[j].serial = s}

\* Request k calls remove_camera(s).  An unknown serial gives False.  For a
\* known one disconnect is awaited: without a handle object it returns
\* without suspending, and the entry is deleted and True returned in the
\* same stretch; with one, close() is handed to the executor and the call
\* suspends.
RemoveCall(k, s) ==
    /\ LoopFree
    /\ removals[k].pc = "idle"
    /\ \A j \in Removers : j < k => removals[j].pc # "idle"
    /\ IF s \notin DOMAIN cameras
       THEN /\ removals' = [removals EXCEPT
                   ![k] = [@ EXCEPT !.pc = "done", !.serial = s, !.ret = "False"]]
            /\ UNCHANGED cameras
       ELSE IF cameras[s].gopro # "GoPro"
       THEN /\ removals' = [removals EXCEPT
                   ![k] = [@ EXCEPT !.pc = "done", !.serial = s, !.ret = "True"]]
            /\ cameras' = DictPop(cameras, s)
       ELSE /\ removals' =
                 [j \in Removers |->
                     IF j = k
                     THEN [removals[j] EXCEPT !.pc = "close", !.serial = s,
                                              !.overlapped = Removing(s) # {}]
                     ELSE IF j \in Removing(s)
                          THEN [removals[j] EXCEPT !.overlapped = TRUE]
                          ELSE removals[j]]
            /\ UNCHANGED cameras
    /\ UNCHANGED <<ble_busy, batch, monitor, poll_threads, returned>>

\* close() is over for request k: disconnect clears the flags of the camera
\* object and returns, and remove_camera runs `del self.cameras[serial]`,
\* which raises KeyError when the entry is gone.
RemoveResumes(k) ==
    /\ LoopFree
    /\ removals[k].pc = "close"
    /\ LET s == removals[k].serial
       IN  IF s \in DOMAIN cameras
           THEN /\ cameras' = DictPop(cameras, s)
                /\ removals' = [removals EXCEPT
                       ![k] = [@ EXCEPT !.pc = "done", !.ret = "True"]]
           ELSE /\ UNCHANGED cameras
                /\ removals' = [removals EXCEPT
                       ![k] = [@ EXCEPT !.pc = "done", !.ret = "KeyError"]]
    /\ UNCHANGED <<ble_busy, batch, monitor, poll_threads, returned>>

NextRemove ==
    \/ \E s \in Serials : add_camera(s) /\ UNCHANGED <<cohnVars, provVars, codecVars>>
    \/ \E s \in Serials : connect_ble(s) /\ UNCHANGED <<cohnVars, provVars, codecVars>>
    \/ \E s \in Serials, b \in {"connected", "raises"} :
          OpenDone(s, b) /\ UNCHANGED <<cohnVars, provVars, codecVars>>
    \/ \E s \in Serials : OpenFailed(s) /\ UNCHANGED <<cohnVars, provVars, codecVars>>
    \/ \E s \in Serials : LinkLost(s) /\ UNCHANGED <<cohnVars, provVars, codecVars>>
    \/ \E k \in Removers, s \in Serials :
          RemoveCall(k, s) /\ UNCHANGED <<cohnVars, provVars, codecVars>>
    \/ \E k \in Removers : RemoveResumes(k) /\ UNCHANGED <<cohnVars, provVars, codecVars>>

SpecRemove == InitCam /\ [][NextRemove]_vars

\* ------------------------------------------------------------------------
\* C40
\* ------------------------------------------------------------------------
\* C40: when two remove_camera calls for the same serial overlap, neither
\* raises; once both have completed one has returned True and the other
\* False, and the serial is not registered.
C40_OverlappingRemovals ==
    [][\A k \in Removers :
          (removals[k].pc = "close" /\ removals'[k].pc = "done"
              /\ removals[k].overlapped) =>
              /\ removals'[k].ret \in {"True", "False"}
              /\ \A j \in Removers \ {k} :
                    (/\ removals'[j].pc = "done" /\ removals'[j].overlapped
                     /\ removals'[j].serial = removals[k].serial) =>
                        /\ {removals'[k].ret, removals'[j].ret} = {"True", "False"}
                        /\ removals[k].serial \notin DOMAIN cameras']_vars


====
